---- MODULE Spec2Model ----
(***************************************************************************)
(* Model of the smart-canvas back-end: the Agent service                   *)
(* (src/agent-service/app.py) and the Skill Engine                         *)
(* (src/skills-service/app.py).                                            *)
(*                                                                         *)
(* Specifications:                                                         *)
(*   SpecPrio  - _prioritize_tool_calls applied to bounded call lists      *)
(*   SpecNorm  - _normalize_tool_schema applied to bounded schemas         *)
(*   Spec      - one /run request handled by the Agent or by the Skill     *)
(*               Engine (with the learner task it creates), with the Model *)
(*               Client, the tool server and the client (cancellation) as  *)
(*               nondeterministic environment                              *)
(*   SpecText  - the text extraction applied to bounded responses          *)
(*   SpecCatalogue - the skill catalogue under two concurrent writers      *)
(*   SpecMerge - the list merges of a learner merge                        *)
(*   SpecFeedback - two concurrent /feedback requests over a store of two  *)
(*               users                                                     *)
(*   SpecStore - one /feedback request among /run requests and learners of *)
(*               the two users                                             *)
(*   SpecPrompt - the prompt file and its cache                            *)
(*   SpecTools - one /run of the Agent over tool servers, allow-lists      *)
(*               and responses that vary in the tools they name            *)
(*   SpecLearner - two learner tasks of one user, await by await           *)
(***************************************************************************)
EXTENDS Integers, Sequences, FiniteSets, TLC

VARIABLES
    \* ---- pure-function harnesses
    calls,          \* input list of _prioritize_tool_calls
    ordered,        \* its result: [done, result]
    schema,         \* input of _normalize_tool_schema
    normalized,     \* result of the first application
    renormalized,   \* result of applying it to its own output
    \* ---- run_agent (Agent service, POST /run)
    req,            \* the AgentRunRequest: [apiKey, mcp, maxTurns,
                    \*   allowedTools]
    pc,             \* position of run_agent
    mcp,            \* the context managers of mcp_session_context:
                    \*   [http_client, streams, session]
    response,       \* last response of the Model Client: [id, output]
    tool_calls,     \* the prioritised function calls of the current round
    idx,            \* position in tool_calls of the call being executed
    outputs,        \* function_call_output items of the current round
    sent,           \* input of the Model Client call in flight, if any
    parseCalls,     \* number of client.responses.parse calls issued
    parse_kwargs,   \* keyword arguments of the last Model Client call:
                    \*   [tools, parallel_tool_calls, previous_response_id]
    function_tools, \* names of the tools advertised to the Model Client
    mcp_tools,      \* names of the tools the tool server listed
    toolCalls,      \* number of mcp_session.call_tool calls issued
    toolLog,        \* call_tool events of the current round
    exc,            \* how the body of `async with mcp_session_context` ended
    http,           \* what the client of /run receives: [status, detail, output]
    \* ---- run_skill (Skill Engine, POST /run)
    sreq,           \* the SkillRunRequest: [apiKey, userId, query]
    spc,            \* position of run_skill
    POOL,           \* the database pool exists
    VECTOR_ENABLED, \* the store supports vector search
    skill,          \* the skill row kept as a match
    steps,          \* number of steps of the version being executed
    step_results,   \* the step results recorded: [index, output]
    effects,        \* calls made: [embed, agent, runs, learner]
    shttp,          \* what the client receives: [status, detail, found,
                    \*   output]
    match_similarity,   \* similarity to the nearest skill, if computed
    nearest,        \* what _find_skill returned: the row and match_distance
    skill_version_id,   \* id of the version loaded, "" if none
    agent_calls,    \* the calls of _run_agent_once: [index, recap, status]
    last_result,    \* output of the last Agent answer
    skill_runs,     \* the rows of assistant_skill_runs
    learner,        \* the learner task of the request: [pc, outcome]
    \* ---- final text of an agent run
    resp_shape,     \* a response of the Model Client: [output_parsed,
                    \*   output_text, output]
    final_text,     \* the output computed from it: [done, result]
    \* ---- the skill catalogue and its writers
    assistant_skills,           \* the skill rows, by id
    assistant_skill_versions,   \* the version rows, by id
    task,           \* per writer: its kind, position and local values
    \* ---- the list merges of a learner merge
    merge_args,     \* [kind, existing, incoming]
    merged_list,    \* the merged list: [done, result]
    \* ---- the runs of the store and the /feedback requests
    assistant_skill_runs,       \* the run rows, by id
    fb,             \* per /feedback request: its fields, position, answer
    accessed,       \* the rows requests touched: [by, owner, table, how]
    \* ---- the prompt file of the Agent service and its cache
    prompt_file,    \* the file at PROMPT_PATH: [exists, text, mtime]
    _prompt_cache,  \* the cached text, or None
    _prompt_mtime,  \* the modification time cached with it, or NoMtime
    prompt_result   \* the last call: [op, value, reread, raised]

pureVars == <<calls, ordered, schema, normalized, renormalized>>

agentVars == <<req, pc, mcp, response, tool_calls, idx, outputs, sent,
               parseCalls, parse_kwargs, function_tools, mcp_tools,
               toolCalls, toolLog, exc, http>>

skillVars == <<sreq, spc, POOL, VECTOR_ENABLED, skill, steps, step_results,
               effects, shttp, match_similarity, nearest, skill_version_id,
               agent_calls, last_result, skill_runs, learner>>

textVars == <<resp_shape, final_text>>
catalogueVars == <<assistant_skills, assistant_skill_versions, task>>
mergeVars == <<merge_args, merged_list>>
feedbackVars == <<assistant_skill_runs, fb, accessed>>
promptVars == <<prompt_file, _prompt_cache, _prompt_mtime, prompt_result>>

vars == <<calls, ordered, schema, normalized, renormalized,
          req, pc, mcp, response, tool_calls, idx, outputs, sent,
          parseCalls, parse_kwargs,
          function_tools, mcp_tools, toolCalls, toolLog, exc, http,
          sreq, spc, POOL, VECTOR_ENABLED, skill, steps, step_results,
          effects, shttp, match_similarity, nearest, skill_version_id, agent_calls,
          last_result, skill_runs, learner, resp_shape, final_text,
          assistant_skills, assistant_skill_versions, task,
          merge_args, merged_list, assistant_skill_runs, fb, accessed,
          prompt_file, _prompt_cache, _prompt_mtime, prompt_result>>

\* the variables an action of one part leaves alone
notAgent ==
    <<pureVars, skillVars, textVars, catalogueVars, mergeVars,
      feedbackVars, promptVars>>
notSkill ==
    <<pureVars, agentVars, textVars, catalogueVars, mergeVars,
      feedbackVars, promptVars>>
notPure ==
    <<agentVars, skillVars, textVars, catalogueVars, mergeVars,
      feedbackVars, promptVars>>
notText ==
    <<pureVars, agentVars, skillVars, catalogueVars, mergeVars,
      feedbackVars, promptVars>>
notCatalogue ==
    <<pureVars, agentVars, skillVars, textVars, mergeVars,
      feedbackVars, promptVars>>
notMerge ==
    <<pureVars, agentVars, skillVars, textVars, catalogueVars, feedbackVars,
      promptVars>>
\* a /feedback request writes the catalogue as well
notFeedback ==
    <<pureVars, agentVars, skillVars, textVars, mergeVars, promptVars>>
notPrompt ==
    <<pureVars, agentVars, skillVars, textVars, catalogueVars, mergeVars,
      feedbackVars>>

\* ---- bounds
MaxSortLen == 3     \* longest call list given to _prioritize_tool_calls
MaxProps == 2       \* most properties of a schema given to the normaliser
MaxCalls == 2       \* most output items in one Model Client response
MaxRounds == 2      \* responses of one run that may carry function calls
MaxVersionSteps == 5 \* most steps of a skill version loaded by run_skill
MaxItems == 2       \* most items of response.output in the text extraction
MaxParts == 2       \* most parts of one item's content
MaxSkills == 1      \* most skill rows ever inserted into the catalogue
MaxVersions == 3    \* highest version number a writer may compute
MaxIncoming == 2    \* most items of the incoming list of a merge
MaxRuns == 4        \* most rows of assistant_skill_runs
MaxMtime == 2       \* latest tick of the clock that stamps the prompt file

Unset == [done |-> FALSE, result |-> <<>>]

(***************************************************************************)
(* Tool-call arguments.  The raw `arguments` of a function call is one of  *)
(* these shapes; _parse_tool_args maps it to a Python value.               *)
(***************************************************************************)
RawArgs ==
    { "None",           \* attribute absent / None
      "empty",          \* ""
      "bad",            \* text that is not JSON
      "json_create",    \* '{"action": "create"}'
      "json_update",    \* '{"action": "update"}'
      "json_noaction",  \* '{"title": "t"}'
      "json_list",      \* '["create"]'  (valid JSON, not an object)
      "dict_create",    \* a dict {"action": "create"} passed as such
      "int" }           \* a non-str, non-dict truthy value such as 123

EmptyDict == [kind |-> "dict", action |-> "absent"]

\* _parse_tool_args: falsy -> {}, dict -> itself, str -> json.loads or {} on
\* JSONDecodeError, anything else -> {}
_parse_tool_args(raw) ==
    IF raw \in {"None", "empty"} THEN EmptyDict
    ELSE IF raw = "dict_create" THEN [kind |-> "dict", action |-> "create"]
    ELSE IF raw = "json_create" THEN [kind |-> "dict", action |-> "create"]
    ELSE IF raw = "json_update" THEN [kind |-> "dict", action |-> "update"]
    ELSE IF raw = "json_noaction" THEN [kind |-> "dict", action |-> "absent"]
    ELSE IF raw = "json_list" THEN [kind |-> "list", action |-> "absent"]
    ELSE EmptyDict

\* _tool_call_priority with `name == "edge"` alone deciding the weight
PriorityIgnoringAction(call) ==
    IF call.name = "edge" THEN 10 ELSE 0

_tool_call_priority(call) ==
    LET args == _parse_tool_args(call.arguments)
        action == IF args.kind = "dict" THEN args.action ELSE "absent"
    IN IF call.name = "edge" /\ action = "create" THEN 10 ELSE 0

\* key of list.sort in _prioritize_tool_calls: (priority, index)
KeyLess(p, q) ==
    LET kp == _tool_call_priority(p[2])
        kq == _tool_call_priority(q[2])
    IN kp < kq \/ (kp = kq /\ p[1] < q[1])

RECURSIVE InsertSorted(_, _)
InsertSorted(pair, sorted) ==
    IF sorted = <<>> THEN <<pair>>
    ELSE IF KeyLess(pair, Head(sorted)) THEN <<pair>> \o sorted
    ELSE <<Head(sorted)>> \o InsertSorted(pair, Tail(sorted))

RECURSIVE SortPairs(_)
SortPairs(pairs) ==
    IF pairs = <<>> THEN <<>>
    ELSE InsertSorted(Head(pairs), SortPairs(Tail(pairs)))

\* the calls left in the order of the response
Unprioritized(cs) == cs

_prioritize_tool_calls(cs) ==
    LET indexed == [i \in 1..Len(cs) |-> <<i, cs[i]>>]
        sorted == SortPairs(indexed)
    IN [i \in 1..Len(sorted) |-> sorted[i][2]]

(***************************************************************************)
(* SpecPrio                                                                *)
(***************************************************************************)
SortNames == {"edge", "node"}
SortArgs == {"json_create", "json_update", "json_list", "bad", "dict_create"}
SortCalls == [name : SortNames, arguments : SortArgs]

SeqsUpTo(S, n) == UNION {[1..k -> S] : k \in 0..n}

(***************************************************************************)
(* Tool schemas.  A schema is a JSON value; the normaliser looks at the    *)
(* keys type, properties and additionalProperties of the schema and at the *)
(* keys type, anyOf/oneOf/allOf, properties and additionalProperties of    *)
(* each property.  A key is "absent" or carries the value named.  The      *)
(* properties mapping is kept in insertion order (the order a dict is      *)
(* iterated in).                                                           *)
(***************************************************************************)
PropTypes == {"absent", "null", "object", "string"}
Combinators == {"absent", "anyOf"}
NestedProps == {"absent", "list", "dict"}
AddlVals == {"absent", "true", "false"}

RawProp == [kind |-> "raw", type |-> "absent", comb |-> "absent",
            properties |-> "absent", addl |-> "absent"]

DictProps == [kind : {"dict"}, type : PropTypes, comb : Combinators,
              properties : NestedProps, addl : {"absent", "true"}]

Props == DictProps \cup {RawProp}

NonDictSchema == [kind |-> "nondict", type |-> "absent", propsKind |-> "absent",
                  props |-> <<>>, addl |-> "absent"]

DictSchemas ==
    [kind : {"dict"}, type : PropTypes, propsKind : {"absent", "list"},
     props : {<<>>}, addl : AddlVals]
    \cup
    [kind : {"dict"}, type : PropTypes, propsKind : {"dict"},
     props : SeqsUpTo(Props, MaxProps), addl : AddlVals]

Schemas == DictSchemas \cup {NonDictSchema}

IdleSchema == [done |-> FALSE, result |-> NonDictSchema]

\* the loop body coercing a non-mapping property to {} instead of
\* {"type": "string"}
NormalizePropUntyped(prop) ==
    IF prop.kind # "dict"
    THEN [kind |-> "dict", type |-> "absent", comb |-> "absent",
          properties |-> "absent", addl |-> "absent"]
    ELSE LET typed == IF prop.type = "absent" /\ prop.comb = "absent"
                      THEN [prop EXCEPT !.type = "object"]
                      ELSE prop
         IN IF typed.type = "object"
            THEN [typed EXCEPT !.properties = "dict", !.addl = "false"]
            ELSE typed

\* body of the loop over normalized["properties"].items()
NormalizeProp(prop) ==
    IF prop.kind # "dict"
    THEN [kind |-> "dict", type |-> "string", comb |-> "absent",
          properties |-> "absent", addl |-> "absent"]
    ELSE LET typed == IF prop.type = "absent" /\ prop.comb = "absent"
                      THEN [prop EXCEPT !.type = "object"]
                      ELSE prop
         IN IF typed.type = "object"
            THEN [typed EXCEPT !.properties = "dict", !.addl = "false"]
            ELSE typed

_normalize_tool_schema(sch) ==
    LET base == IF sch.kind = "dict" THEN sch
                ELSE [kind |-> "dict", type |-> "absent", propsKind |-> "absent",
                      props |-> <<>>, addl |-> "absent"]
        withType == IF base.type \in {"absent", "null"}
                    THEN [base EXCEPT !.type = "object"]
                    ELSE base
        withProps == IF withType.propsKind # "dict"
                     THEN [withType EXCEPT !.propsKind = "dict", !.props = <<>>]
                     ELSE withType
        looped == [withProps EXCEPT
                     !.props = [i \in 1..Len(withProps.props) |->
                                   NormalizeProp(withProps.props[i])]]
    IN [looped EXCEPT !.addl = "false"]

(***************************************************************************)
(* run_agent: one POST /run of the Agent service.                          *)
(*                                                                         *)
(* The Model Client, the tool server and the HTTP client of /run are the   *)
(* environment: a Model Client call returns a response or raises, a        *)
(* call_tool returns a result (isError or not) or raises, and the request  *)
(* may be cancelled while the handler is suspended in an await.            *)
(***************************************************************************)
ApiKeys == {" ", "sk-test"}         \* apiKey has min_length 1
MaxTurnsVals == {-1, 0, 1}          \* maxTurns: None (-1), 0, 1

Requests ==
    [apiKey : ApiKeys, mcp : BOOLEAN, maxTurns : MaxTurnsVals,
     allowedTools : {<<>>}]

NoRequest == [apiKey |-> "sk-test", mcp |-> FALSE, maxTurns |-> -1,
              allowedTools |-> <<>>]

\* output items of a response: function calls, whose name or call_id may be
\* missing, and items of another type.  "" is a missing name.
CallNames == {"", "node", "edge"}
CallArgs == {"json_create", "bad"}

FunctionCall(name, arguments, hasId) ==
    [type |-> "function_call", name |-> name, arguments |-> arguments,
     hasId |-> hasId]

ItemShapes ==
    { FunctionCall("node", "json_create", TRUE),
      FunctionCall("edge", "json_create", TRUE),
      FunctionCall("edge", "bad", TRUE),
      FunctionCall("node", "bad", FALSE),
      FunctionCall("edge", "json_create", FALSE),
      FunctionCall("", "json_create", TRUE),
      [type |-> "message", name |-> "", arguments |-> "None",
       hasId |-> FALSE] }

\* call_id 0 is a missing call_id; a present call_id is the item's position
ItemsOf(shapes) ==
    [i \in 1..Len(shapes) |->
        [type |-> shapes[i].type, name |-> shapes[i].name,
         arguments |-> shapes[i].arguments,
         call_id |-> IF shapes[i].hasId THEN i ELSE 0]]

ResponseOutputs == {ItemsOf(sh) : sh \in SeqsUpTo(ItemShapes, MaxCalls)}

IsFunctionCall(item) == item.type = "function_call"

_extract_function_calls(output) == SelectSeq(output, IsFunctionCall)

FinalOutputs ==
    {out \in ResponseOutputs : _extract_function_calls(out) = <<>>}

NoResponse == [id |-> 0, output |-> <<>>]

NoSession == [http_client |-> "none", streams |-> "none", session |-> "none"]
OpenSession == [http_client |-> "open", streams |-> "open", session |-> "open"]

NoExc == [kind |-> "none", status |-> 0]
NoHttp == [status |-> 0, detail |-> "", output |-> ""]
NoSent == [kind |-> "none", round |-> 0, items |-> <<>>]

StatusCodes == {401, 429}           \* statuses of an APIStatusError

\* `not req.apiKey` alone, without the strip()
KeyMissingNoStrip(apiKey) == apiKey = ""

\* `not req.apiKey or not req.apiKey.strip()`
KeyMissing(apiKey) == apiKey \in {"", " "}

\* a loop condition that consults maxTurns
LoopGuardCapped(session, turns, maxTurns) ==
    session = "open" /\ (maxTurns = -1 \/ turns < maxTurns)

\* `while mcp_session:` - the session handle is truthy iff a session was opened
LoopGuard(session, turns, maxTurns) == session = "open"

\* `if not call_id or not name: continue`
Skipped(call) == call.call_id = 0 \/ call.name = ""

\* position of the first call at or after `from` that is not skipped, or 0
NextCall(tc, from) ==
    LET valid == {j \in from..Len(tc) : ~Skipped(tc[j])}
    IN IF valid = {} THEN 0
       ELSE CHOOSE j \in valid : \A k \in valid : j <= k

\* leaving the `async with` without closing what it opened
ContextExitSkipped(m) == "unwound"

\* leaving the body of `async with mcp_session_context(...)`: the context
\* managers opened are exited innermost first
ContextExit(m) ==
    IF m.session = "open" THEN "exit_session" ELSE "unwound"

\* the HTTPException of the handler always carrying status 500
StatusErrorAs500(status) ==
    [status |-> 500, detail |-> "error_message", output |-> ""]

\* except APIStatusError: HTTPException(exc.status_code or 500,
\*                                      {"error": ..., "message": ...})
StatusErrorResult(status) ==
    [status |-> IF status # 0 THEN status ELSE 500,
     detail |-> "error_message", output |-> ""]

\* the response of /run for each way the body ended
ResultOf(e) ==
    IF e.kind = "return" THEN [status |-> 200, detail |-> "", output |-> "text"]
    ELSE IF e.kind = "api_status" THEN StatusErrorResult(e.status)
    ELSE IF e.kind = "cancelled" THEN [status |-> 0, detail |-> "cancelled",
                                       output |-> ""]
    ELSE [status |-> 500, detail |-> "internal_server_error", output |-> ""]

Event(kind, call, position) ==
    [ev |-> kind, round |-> response.id, pos |-> position,
     call_id |-> call.call_id, name |-> call.name,
     arguments |-> call.arguments]

\* req.mcp.allowedTools: None or a list of str (<<>> is None or the empty
\* list); " " is a whitespace-only entry
AllowLists ==
    { <<>>, <<" ">>, <<" ", "edge">>, <<"text">> }

\* tools_result.tools by name; "None" is a name that is no str, " " a name
\* of one space
ServerTools ==
    { <<"node", "edge">>, <<"node", "", "None">>, <<"edge", " ", "node">> }

\* the tool server of a request that carries no allow-list
DefaultTools == <<"node", "edge">>

\* `name.strip()` of an allow-list entry is truthy
NonBlank(name) == name \notin {"", " "}

\* an allow-list taken as it comes
AllowedUnfiltered(allowedTools) == allowedTools

\* lines 775-777: the entries of the allow-list that are not blank
Allowed(allowedTools) == SelectSeq(allowedTools, NonBlank)

Members(list) == {list[i] : i \in DOMAIN list}

\* every tool with a name is advertised
AdvertisedAll(name, allowed) == name \notin {"None", ""}

\* lines 799-804: the tool is advertised
Advertised(name, allowed) ==
    /\ name \notin {"None", ""}
    /\ (allowed # <<>>) => name \in Members(allowed)

\* lines 798-814: the names of function_tools, in the order of the server
FunctionTools(listed, allowed) ==
    LET Kept(name) == Advertised(name, allowed)
    IN SelectSeq(listed, Kept)

NoKwargs ==
    [tools |-> [none |-> TRUE, list |-> <<>>], parallel_tool_calls |-> FALSE,
     previous_response_id |-> 0]

\* keyword arguments that never carry previous_response_id
ParseKwargsWithoutPrevious(tools, previous) ==
    [tools |-> [none |-> tools = <<>>, list |-> tools],
     parallel_tool_calls |-> tools # <<>>,
     previous_response_id |-> 0]

\* lines 822-830 and 884-893: tools is None and parallel_tool_calls is false
\* when function_tools is empty; previous_response_id 0 is the key left out
ParseKwargs(tools, previous) ==
    [tools |-> [none |-> tools = <<>>, list |-> tools],
     parallel_tool_calls |-> tools # <<>>,
     previous_response_id |-> previous]

AgentIdle ==
    /\ req = NoRequest
    /\ pc = "idle"
    /\ mcp = NoSession
    /\ response = NoResponse
    /\ tool_calls = <<>>
    /\ idx = 0
    /\ outputs = <<>>
    /\ sent = NoSent
    /\ parseCalls = 0
    /\ parse_kwargs = NoKwargs
    /\ function_tools = <<>>
    /\ mcp_tools = <<>>
    /\ toolCalls = 0
    /\ toolLog = <<>>
    /\ exc = NoExc
    /\ http = NoHttp

\* the body of the `async with` ends with e: return or exception
Leave(e) ==
    /\ exc' = e
    /\ pc' = ContextExit(mcp)

\* client.responses.parse(**parse_kwargs) is awaited
IssueParse(input, tools, previous) ==
    /\ pc' = "parse"
    /\ sent' = input
    /\ parseCalls' = parseCalls + 1
    /\ parse_kwargs' = ParseKwargs(tools, previous)

\* the `for call in tool_calls` loop from position `from` on, up to the next
\* await: the next call that is not skipped is sent to the tool server; with
\* none left the round ends, by `break` when it produced no outputs and by the
\* next Model Client call otherwise
RunRound(rid, tc, from, outs, log) ==
    LET j == NextCall(tc, from)
    IN IF j # 0
       THEN /\ pc' = "call_tool"
            /\ idx' = j
            /\ outputs' = outs
            /\ toolCalls' = toolCalls + 1
            /\ toolLog' = Append(log, [ev |-> "start", round |-> rid,
                                       pos |-> j, call_id |-> tc[j].call_id,
                                       name |-> tc[j].name,
                                       arguments |-> tc[j].arguments])
            /\ sent' = NoSent
            /\ UNCHANGED <<parseCalls, parse_kwargs, exc>>
       ELSE /\ idx' = Len(tc) + 1
            /\ outputs' = outs
            /\ toolLog' = log
            /\ UNCHANGED toolCalls
            /\ IF outs = <<>>
               THEN Leave([kind |-> "return", status |-> 0])
                    /\ sent' = NoSent
                    /\ UNCHANGED <<parseCalls, parse_kwargs>>
               ELSE IssueParse([kind |-> "outputs", round |-> rid,
                                items |-> outs], function_tools, rid)
                    /\ UNCHANGED exc

\* lines 739-797: the key check, then the tool session is entered
RunAgentStart ==
    /\ pc = "received"
    /\ IF KeyMissing(req.apiKey)
       THEN /\ pc' = "ended"
            /\ http' = [status |-> 400, detail |-> "openai_key_required",
                        output |-> ""]
            /\ UNCHANGED <<mcp, sent, parseCalls, parse_kwargs>>
       ELSE IF req.mcp
       THEN /\ mcp' = OpenSession
            /\ pc' = "list_tools"
            /\ UNCHANGED <<http, sent, parseCalls, parse_kwargs>>
       ELSE /\ IssueParse([kind |-> "input", round |-> 0, items |-> <<>>],
                           function_tools, 0)
            /\ UNCHANGED <<mcp, http>>
    /\ UNCHANGED <<req, response, tool_calls, idx, outputs, toolCalls,
                   toolLog, exc>>
    /\ UNCHANGED <<function_tools, mcp_tools>>
    /\ UNCHANGED notAgent

\* session.initialize() and session.list_tools() returned: lines 797-831
ListToolsReturn(listed) ==
    /\ pc = "list_tools"
    /\ mcp_tools' = listed
    /\ function_tools' = FunctionTools(listed, Allowed(req.allowedTools))
    /\ IssueParse([kind |-> "input", round |-> 0, items |-> <<>>],
                  function_tools', 0)
    /\ UNCHANGED <<req, mcp, response, tool_calls, idx, outputs, toolCalls,
                   toolLog, exc, http>>
    /\ UNCHANGED notAgent

\* session.initialize() or session.list_tools() raised
ListToolsRaise ==
    /\ pc = "list_tools"
    /\ Leave([kind |-> "session_error", status |-> 0])
    /\ UNCHANGED <<req, mcp, response, tool_calls, idx, outputs, sent,
                   parseCalls, parse_kwargs, toolCalls, toolLog, http>>
    /\ UNCHANGED <<function_tools, mcp_tools>>
    /\ UNCHANGED notAgent

\* the Model Client returns a response: lines 838-867 and 894
ParseReturn(out) ==
    /\ pc = "parse"
    /\ response' = [id |-> response.id + 1, output |-> out]
    /\ IF LoopGuard(mcp.session, response.id, req.maxTurns)
       THEN /\ tool_calls' = _prioritize_tool_calls(_extract_function_calls(out))
            /\ RunRound(response.id + 1, tool_calls', 1, <<>>, <<>>)
       ELSE /\ Leave([kind |-> "return", status |-> 0])
            /\ sent' = NoSent
            /\ UNCHANGED <<tool_calls, idx, outputs, parseCalls, parse_kwargs,
                           toolCalls, toolLog>>
    /\ UNCHANGED <<req, mcp, http>>
    /\ UNCHANGED <<function_tools, mcp_tools>>
    /\ UNCHANGED notAgent

\* the Model Client raises APIStatusError
ParseRaiseStatus(status) ==
    /\ pc = "parse"
    /\ Leave([kind |-> "api_status", status |-> status])
    /\ UNCHANGED <<req, mcp, response, tool_calls, idx, outputs, sent,
                   parseCalls, parse_kwargs, toolCalls, toolLog, http>>
    /\ UNCHANGED <<function_tools, mcp_tools>>
    /\ UNCHANGED notAgent

\* the Model Client raises an error that is not an APIStatusError
\* (connection error, timeout)
ParseRaiseOther ==
    /\ pc = "parse"
    /\ Leave([kind |-> "client_error", status |-> 0])
    /\ UNCHANGED <<req, mcp, response, tool_calls, idx, outputs, sent,
                   parseCalls, parse_kwargs, toolCalls, toolLog, http>>
    /\ UNCHANGED <<function_tools, mcp_tools>>
    /\ UNCHANGED notAgent

\* mcp_session.call_tool returns a result: lines 856-867, then the loop
CallToolReturn(isError) ==
    /\ pc = "call_tool"
    /\ RunRound(response.id, tool_calls, idx + 1,
                Append(outputs, [type |-> "function_call_output",
                                 call_id |-> tool_calls[idx].call_id,
                                 isError |-> isError]),
                Append(toolLog, Event("return", tool_calls[idx], idx)))
    /\ UNCHANGED <<req, mcp, response, tool_calls, http>>
    /\ UNCHANGED <<function_tools, mcp_tools>>
    /\ UNCHANGED notAgent

\* mcp_session.call_tool raises (protocol error, read timeout, closed stream):
\* line 856 is not inside a try
CallToolRaise ==
    /\ pc = "call_tool"
    /\ toolLog' = Append(toolLog, Event("raise", tool_calls[idx], idx))
    /\ Leave([kind |-> "tool_error", status |-> 0])
    /\ UNCHANGED <<req, mcp, response, tool_calls, idx, outputs, sent,
                   parseCalls, parse_kwargs, toolCalls, http>>
    /\ UNCHANGED <<function_tools, mcp_tools>>
    /\ UNCHANGED notAgent

\* the request is cancelled while the handler is suspended
Cancel ==
    /\ pc \in {"list_tools", "parse", "call_tool"}
    /\ Leave([kind |-> "cancelled", status |-> 0])
    /\ UNCHANGED <<req, mcp, response, tool_calls, idx, outputs, sent,
                   parseCalls, parse_kwargs, toolCalls, toolLog, http>>
    /\ UNCHANGED <<function_tools, mcp_tools>>
    /\ UNCHANGED notAgent

\* __aexit__ of ClientSession (line 432)
ExitSession ==
    /\ pc = "exit_session"
    /\ mcp' = [mcp EXCEPT !.session = "closed"]
    /\ pc' = "exit_streams"
    /\ UNCHANGED <<req, response, tool_calls, idx, outputs, sent, parseCalls, parse_kwargs,
                   toolCalls, toolLog, exc, http>>
    /\ UNCHANGED <<function_tools, mcp_tools>>
    /\ UNCHANGED notAgent

\* __aexit__ of streamable_http_client, terminate_on_close=True (line 429)
ExitStreams ==
    /\ pc = "exit_streams"
    /\ mcp' = [mcp EXCEPT !.streams = "closed"]
    /\ pc' = "exit_http_client"
    /\ UNCHANGED <<req, response, tool_calls, idx, outputs, sent, parseCalls, parse_kwargs,
                   toolCalls, toolLog, exc, http>>
    /\ UNCHANGED <<function_tools, mcp_tools>>
    /\ UNCHANGED notAgent

\* __aexit__ of httpx.AsyncClient (line 428)
ExitHttpClient ==
    /\ pc = "exit_http_client"
    /\ mcp' = [mcp EXCEPT !.http_client = "closed"]
    /\ pc' = "unwound"
    /\ UNCHANGED <<req, response, tool_calls, idx, outputs, sent, parseCalls, parse_kwargs,
                   toolCalls, toolLog, exc, http>>
    /\ UNCHANGED <<function_tools, mcp_tools>>
    /\ UNCHANGED notAgent

\* the handler returns or raises: lines 925-950
EndRun ==
    /\ pc = "unwound"
    /\ http' = ResultOf(exc)
    /\ pc' = "ended"
    /\ UNCHANGED <<req, mcp, response, tool_calls, idx, outputs, sent,
                   parseCalls, parse_kwargs, toolCalls, toolLog, exc>>
    /\ UNCHANGED <<function_tools, mcp_tools>>
    /\ UNCHANGED notAgent

NextAgent ==
    \/ RunAgentStart
    \/ ListToolsReturn(DefaultTools)
    \/ ListToolsRaise
    \/ \E out \in (IF response.id < MaxRounds THEN ResponseOutputs
                   ELSE FinalOutputs) : ParseReturn(out)
    \/ \E status \in StatusCodes : ParseRaiseStatus(status)
    \/ ParseRaiseOther
    \/ \E isError \in BOOLEAN : CallToolReturn(isError)
    \/ CallToolRaise
    \/ Cancel
    \/ ExitSession
    \/ ExitStreams
    \/ ExitHttpClient
    \/ EndRun

InitAgent ==
    /\ req \in Requests
    /\ pc = "received"
    /\ mcp = NoSession
    /\ response = NoResponse
    /\ tool_calls = <<>>
    /\ idx = 0
    /\ outputs = <<>>
    /\ sent = NoSent
    /\ parseCalls = 0
    /\ parse_kwargs = NoKwargs
    /\ function_tools = <<>>
    /\ mcp_tools = <<>>
    /\ toolCalls = 0
    /\ toolLog = <<>>
    /\ exc = NoExc
    /\ http = NoHttp

(***************************************************************************)
(* run_skill: one POST /run of the Skill Engine                            *)
(* (src/skills-service/app.py).  The embedding provider, the database and  *)
(* the Agent service are the environment.  Similarities and distances are  *)
(* in hundredths.                                                          *)
(***************************************************************************)
SKILLS_MATCH_THRESHOLD == 25
SKILLS_MATCH_SIMILARITY_THRESHOLD == 75

UserIds == {"", "U"}                \* "" is an absent userId
Queries == {"", "q"}                \* the last user message, clamped

SkillRequests == [apiKey : ApiKeys, userId : UserIds, query : Queries]

NoSkillRequest == [apiKey |-> "sk-test", userId |-> "", query |-> ""]

NoSimilarity == -1                  \* match_similarity is None

\* what _find_skill returns: no row, or the nearest skill of the user with
\* its id, its stored embedding (possibly unreadable), its cosine to the
\* request, the distance column (-1 is None) and the active-version pointer
\* ("" is None)
NoRow == [present |-> FALSE, id |-> "", hasEmbedding |-> FALSE, cosine |-> 0,
          distance |-> -1, active_version_id |-> ""]

SkillRows ==
    [present : {TRUE}, id : {"s1", "s2"}, hasEmbedding : {TRUE},
     cosine : {60, 75, 90}, distance : {20},
     active_version_id : {"", "v1", "v2"}]
    \cup [present : {TRUE}, id : {"s1", "s2"}, hasEmbedding : {FALSE},
          cosine : {0}, distance : {-1, 20, 80},
          active_version_id : {"", "v1", "v2"}]
    \cup {NoRow}

AgentOutputs == {"a", "b"}          \* the output of an Agent answer

NoEffects == [embed |-> 0, agent |-> 0, runs |-> 0, learner |-> 0]
NoSkillHttp == [status |-> 0, detail |-> "", found |-> FALSE, output |-> "",
                skillId |-> "", skillVersionId |-> ""]

Clamp01(x) == IF x < 0 THEN 0 ELSE IF x > 100 THEN 100 ELSE x

\* the similarity without the derivation from the distance
MatchSimilarityCosineOnly(row) ==
    IF row.present /\ row.hasEmbedding THEN Clamp01(row.cosine)
    ELSE NoSimilarity

\* lines 1529-1536: the similarity to the nearest skill, when computable
MatchSimilarity(row) ==
    IF ~row.present THEN NoSimilarity
    ELSE IF row.hasEmbedding THEN Clamp01(row.cosine)
    ELSE IF row.distance # -1
         THEN Clamp01(100 - (row.distance * row.distance) \div 200)
    ELSE NoSimilarity

SkillMatchesNearest(row) == row.present

\* lines 1529-1572: is the nearest skill kept as a match
SkillMatches(row) ==
    IF ~row.present THEN FALSE
    ELSE IF MatchSimilarity(row) # NoSimilarity
         THEN ~(MatchSimilarity(row) < SKILLS_MATCH_SIMILARITY_THRESHOLD)
    ELSE ~(row.distance = -1 \/ row.distance > SKILLS_MATCH_THRESHOLD)

\* `not req.apiKey or not req.apiKey.strip()` of run_skill
SkillKeyMissing(apiKey) == apiKey \in {"", " "}

\* the instructions of a call without step: None
NoInstructions == [index |-> -1, recap |-> <<>>, status |-> 0]

LastAll(prior_results) == prior_results

\* prior_results[-3:]
LastThree(prior_results) ==
    SubSeq(prior_results,
           IF Len(prior_results) > 3 THEN Len(prior_results) - 2 ELSE 1,
           Len(prior_results))

\* the step of the instructions and the outputs of their recap; status is
\* the answer of the Agent to the call, 0 while there is none
_build_step_instructions(index, prior_results) ==
    [index |-> index,
     recap |-> [i \in 1..Len(LastThree(prior_results)) |->
                    LastThree(prior_results)[i].output],
     status |-> 0]

AgentStatusAs500(status) == 500

\* HTTPException(status_code=res.status_code) of _call_agent_service
AgentFailureStatus(status) == status

SkillRunRowUnlinked(skill_id, version_id, user_id, results) ==
    [skill_id |-> "", skill_version_id |-> "", user_id |-> user_id,
     step_results |-> results]

\* the row _insert_skill_run writes
SkillRunRow(skill_id, version_id, user_id, results) ==
    [skill_id |-> skill_id, skill_version_id |-> version_id,
     user_id |-> user_id, step_results |-> results]

\* the learner task: not created, or at one of its awaits, or finished
NoLearner == [pc |-> "none", mode |-> "none", outcome |-> "none"]
Queued == [pc |-> "queued", mode |-> "none", outcome |-> "none"]

LearnerAwaits ==
    {"decompose", "generalize", "embed", "find_skill", "save", "update_run"}

\* the ids the learner links the run to: the candidate it merged into, or
\* the skill it inserted, and the version it wrote
LearnerSkillId(mode) == IF mode = "merge" THEN "s1" ELSE "s3"
LearnerVersionId == "v3"

LearnerDispatchedWithoutQuery(found, userId, query) == ~found /\ userId # ""

\* line 1689: the condition under which the learner task is created
LearnerDispatched(found, userId, query) ==
    ~found /\ userId # "" /\ query # ""

LearnerCatchAs500(answer) == [answer EXCEPT !.status = 500]

\* lines 1490-1491: the handler of the learner logs the exception; the
\* response of the request stays as it is
LearnerCatch(answer) == answer

\* no /run request of the Skill Engine: all of its variables but POOL
SkillQuiet ==
    /\ sreq = NoSkillRequest
    /\ spc = "idle"
    /\ VECTOR_ENABLED = FALSE
    /\ skill = NoRow
    /\ steps = 0
    /\ step_results = <<>>
    /\ effects = NoEffects
    /\ shttp = NoSkillHttp
    /\ match_similarity = NoSimilarity
    /\ nearest = NoRow
    /\ skill_version_id = ""
    /\ agent_calls = <<>>
    /\ last_result = ""
    /\ skill_runs = <<>>
    /\ learner = NoLearner

SkillIdle == SkillQuiet /\ POOL = FALSE

\* _run_agent_once is awaited
CallAgent(next, instructions) ==
    /\ spc' = next
    /\ effects' = [effects EXCEPT !.agent = @ + 1]
    /\ agent_calls' = Append(agent_calls, instructions)

\* the Agent answered the call that is awaited
Answered(status) ==
    [agent_calls EXCEPT ![Len(agent_calls)].status = status]

\* lines 1495-1520: the two rejections, then the search or the base run
RunSkillStart ==
    /\ spc = "received"
    /\ IF SkillKeyMissing(sreq.apiKey)
       THEN /\ spc' = "ended"
            /\ shttp' = [NoSkillHttp EXCEPT !.status = 400,
                                            !.detail = "openai_key_required"]
            /\ UNCHANGED <<effects, agent_calls>>
       ELSE IF ~POOL
       THEN /\ spc' = "ended"
            /\ shttp' = [NoSkillHttp EXCEPT
                            !.status = 503,
                            !.detail = "skills_pool_unavailable"]
            /\ UNCHANGED <<effects, agent_calls>>
       ELSE IF sreq.userId # "" /\ sreq.query # ""
       THEN /\ spc' = "embed"
            /\ effects' = [effects EXCEPT !.embed = @ + 1]
            /\ UNCHANGED <<shttp, agent_calls>>
       ELSE /\ CallAgent("agent_base", NoInstructions)
            /\ UNCHANGED shttp
    /\ UNCHANGED <<sreq, learner, POOL, VECTOR_ENABLED, skill, steps, step_results,
                   match_similarity, nearest, skill_version_id, last_result,
                   skill_runs>>
    /\ UNCHANGED notSkill

\* _embed_text returns a vector, or None on any failure; _find_skill returns
\* (None, None) at once when the store has no vector support
EmbedReturn(ok) ==
    /\ spc = "embed"
    /\ IF ok /\ VECTOR_ENABLED
       THEN spc' = "find_skill" /\ UNCHANGED <<effects, agent_calls>>
       ELSE CallAgent("agent_base", NoInstructions)
    /\ UNCHANGED <<sreq, learner, POOL, VECTOR_ENABLED, skill, steps, step_results,
                   shttp, match_similarity, nearest, skill_version_id, last_result,
                   skill_runs>>
    /\ UNCHANGED notSkill

\* the nearest-neighbour query returns: lines 1527-1583
FindSkillReturn(row) ==
    /\ spc = "find_skill"
    /\ match_similarity' = MatchSimilarity(row)
    /\ nearest' = row
    /\ IF SkillMatches(row)
       THEN /\ skill' = row
            /\ IF row.active_version_id # ""
               THEN spc' = "load_version" /\ UNCHANGED <<effects, agent_calls>>
               ELSE CallAgent("agent_base", NoInstructions)
       ELSE /\ skill' = NoRow
            /\ CallAgent("agent_base", NoInstructions)
    /\ UNCHANGED <<sreq, learner, POOL, VECTOR_ENABLED, steps, step_results, shttp,
                   skill_version_id, last_result, skill_runs>>
    /\ UNCHANGED notSkill

\* _load_skill_version returns the version with n steps, or None (n = -1):
\* lines 1580-1607
LoadVersionReturn(n) ==
    /\ spc = "load_version"
    /\ skill_version_id' = IF n >= 0 THEN skill.active_version_id ELSE ""
    /\ IF n > 0
       THEN /\ steps' = n
            /\ CallAgent("agent_step", _build_step_instructions(0, <<>>))
       ELSE /\ steps' = 0
            /\ CallAgent("agent_base", NoInstructions)
    /\ UNCHANGED <<sreq, learner, POOL, VECTOR_ENABLED, skill, step_results, shttp,
                   match_similarity, nearest, last_result, skill_runs>>
    /\ UNCHANGED notSkill

\* a database call raises
DatabaseRaise ==
    /\ spc \in {"find_skill", "load_version", "insert_run_skill",
                "insert_run_base"}
    /\ spc' = "ended"
    /\ shttp' = [NoSkillHttp EXCEPT !.status = 500,
                                    !.detail = "internal_server_error"]
    /\ UNCHANGED <<sreq, learner, POOL, VECTOR_ENABLED, skill, steps, step_results,
                   effects, match_similarity, nearest, skill_version_id, agent_calls,
                   last_result, skill_runs>>
    /\ UNCHANGED notSkill

\* the Agent answers a step: lines 1608-1659
StepAgentReturn(output) ==
    /\ spc = "agent_step"
    /\ step_results' =
        Append(step_results, [index |-> Len(step_results), output |-> output])
    /\ last_result' = output
    /\ IF Len(step_results) + 1 < steps
       THEN /\ spc' = "agent_step"
            /\ effects' = [effects EXCEPT !.agent = @ + 1]
            /\ agent_calls' =
                Append(Answered(200),
                       _build_step_instructions(Len(step_results) + 1,
                                                step_results'))
            /\ UNCHANGED shttp
       ELSE IF sreq.userId # ""
       THEN /\ spc' = "insert_run_skill"
            /\ agent_calls' = Answered(200)
            /\ UNCHANGED <<effects, shttp>>
       ELSE /\ spc' = "ended"
            /\ agent_calls' = Answered(200)
            /\ shttp' = [status |-> 200, detail |-> "", found |-> TRUE,
                         output |-> output, skillId |-> skill.id,
                         skillVersionId |-> skill_version_id]
            /\ UNCHANGED effects
    /\ UNCHANGED <<sreq, learner, POOL, VECTOR_ENABLED, skill, steps, match_similarity, nearest,
                   skill_version_id, skill_runs>>
    /\ UNCHANGED notSkill

\* the Agent answers the base request: lines 1661-1716
BaseAgentReturn(output) ==
    /\ spc = "agent_base"
    /\ last_result' = output
    /\ agent_calls' = Answered(200)
    /\ IF sreq.userId # ""
       THEN spc' = "insert_run_base" /\ UNCHANGED <<effects, shttp>>
       ELSE /\ spc' = "ended"
            /\ shttp' = [status |-> 200, detail |-> "", found |-> FALSE,
                         output |-> output, skillId |-> "",
                         skillVersionId |-> ""]
            /\ UNCHANGED effects
    /\ learner' = IF /\ sreq.userId = ""
                     /\ LearnerDispatched(FALSE, sreq.userId, sreq.query)
                  THEN Queued ELSE learner
    /\ UNCHANGED <<sreq, POOL, VECTOR_ENABLED, skill, steps, step_results,
                   match_similarity, nearest, skill_version_id, skill_runs>>
    /\ UNCHANGED notSkill

\* the Agent answers without success: _call_agent_service raises
\* HTTPException with the Agent's status
AgentFail(status) ==
    /\ spc \in {"agent_step", "agent_base"}
    /\ spc' = "ended"
    /\ agent_calls' = Answered(status)
    /\ shttp' = [NoSkillHttp EXCEPT !.status = AgentFailureStatus(status),
                                    !.detail = "agent_failed"]
    /\ UNCHANGED <<sreq, learner, POOL, VECTOR_ENABLED, skill, steps, step_results,
                   effects, match_similarity, nearest, skill_version_id, last_result,
                   skill_runs>>
    /\ UNCHANGED notSkill

\* the Agent gives no answer (the connection fails, the timeout passes) or
\* one that is no JSON object: the exception leaves run_skill
AgentRaise ==
    /\ spc \in {"agent_step", "agent_base"}
    /\ spc' = "ended"
    /\ shttp' = [NoSkillHttp EXCEPT !.status = 500,
                                    !.detail = "internal_server_error"]
    /\ UNCHANGED <<sreq, learner, POOL, VECTOR_ENABLED, skill, steps, step_results,
                   effects, match_similarity, nearest, skill_version_id, agent_calls,
                   last_result, skill_runs>>
    /\ UNCHANGED notSkill

\* _insert_skill_run returned; in base mode the learner task is created
\* under the condition of line 1689, and the response is built with no await
\* in between: lines 1624-1659 and 1668-1716
InsertRunReturn ==
    /\ spc \in {"insert_run_skill", "insert_run_base"}
    /\ spc' = "ended"
    /\ skill_runs' =
        Append(skill_runs,
               IF spc = "insert_run_skill"
               THEN SkillRunRow(skill.id, skill_version_id, sreq.userId,
                                step_results)
               ELSE SkillRunRow("", "", sreq.userId, <<>>))
    /\ LET dispatched ==
               /\ spc = "insert_run_base"
               /\ LearnerDispatched(FALSE, sreq.userId, sreq.query)
       IN  /\ effects' = [effects EXCEPT
                            !.runs = @ + 1,
                            !.learner = IF dispatched THEN @ + 1 ELSE @]
           /\ learner' = IF dispatched THEN Queued ELSE learner
    /\ shttp' = IF spc = "insert_run_skill"
                THEN [status |-> 200, detail |-> "", found |-> TRUE,
                      output |-> last_result, skillId |-> skill.id,
                      skillVersionId |-> skill_version_id]
                ELSE [status |-> 200, detail |-> "", found |-> FALSE,
                      output |-> last_result, skillId |-> "",
                      skillVersionId |-> ""]
    /\ UNCHANGED <<sreq, POOL, VECTOR_ENABLED, skill, steps, step_results,
                   match_similarity, nearest, skill_version_id, agent_calls,
                   last_result>>
    /\ UNCHANGED notSkill

\* what no step of the learner touches
learnerFrame ==
    <<sreq, spc, POOL, VECTOR_ENABLED, skill, steps, step_results, effects,
      match_similarity, nearest, skill_version_id, agent_calls, last_result>>

\* the event loop runs the created task: lines 1280-1285
LearnerStart ==
    /\ learner.pc = "queued"
    /\ learner' = IF ~POOL
                  THEN [learner EXCEPT !.pc = "done", !.outcome = "skipped"]
                  ELSE [learner EXCEPT !.pc = "decompose"]
    /\ UNCHANGED <<shttp, skill_runs>>
    /\ UNCHANGED learnerFrame
    /\ UNCHANGED notSkill

\* _decompose_skill, _generalize_skill (with the score gate that follows it)
\* or _embed_text returns: a value, or nothing and the learner returns;
\* lines 1285-1372
LearnerReturn(ok) ==
    /\ learner.pc \in {"decompose", "generalize", "embed"}
    /\ learner' =
        IF ~ok THEN [learner EXCEPT !.pc = "done", !.outcome = "skipped"]
        ELSE [learner EXCEPT !.pc = CASE learner.pc = "decompose" -> "generalize"
                                      [] learner.pc = "generalize" -> "embed"
                                      [] OTHER -> "find_skill"]
    /\ UNCHANGED <<shttp, skill_runs>>
    /\ UNCHANGED learnerFrame
    /\ UNCHANGED notSkill

\* _find_skill and _load_skill_version returned and the merge score is
\* computed: the learner merges into the candidate or inserts a skill;
\* lines 1378-1414
LearnerFindSkillReturn(mode) ==
    /\ learner.pc = "find_skill"
    /\ learner' = [learner EXCEPT !.pc = "save", !.mode = mode]
    /\ UNCHANGED <<shttp, skill_runs>>
    /\ UNCHANGED learnerFrame
    /\ UNCHANGED notSkill

\* _save_skill_merge or _save_skill returned: lines 1432-1442 and 1465-1475
LearnerSaveReturn ==
    /\ learner.pc = "save"
    /\ learner' = [learner EXCEPT !.pc = "update_run"]
    /\ UNCHANGED <<shttp, skill_runs>>
    /\ UNCHANGED learnerFrame
    /\ UNCHANGED notSkill

\* _update_skill_run_skill returned: the run of the request is linked to the
\* skill and the version; lines 1443-1457 and 1476-1489
LearnerUpdateRunReturn ==
    /\ learner.pc = "update_run"
    /\ learner' = [learner EXCEPT !.pc = "done", !.outcome = "saved"]
    /\ skill_runs' =
        [k \in DOMAIN skill_runs |->
            IF skill_runs[k].user_id = sreq.userId
            THEN [skill_runs[k] EXCEPT
                    !.skill_id = LearnerSkillId(learner.mode),
                    !.skill_version_id = LearnerVersionId]
            ELSE skill_runs[k]]
    /\ UNCHANGED shttp
    /\ UNCHANGED learnerFrame
    /\ UNCHANGED notSkill

\* an awaited call of the learner raises (the LLM, the embedding, the
\* store, a version-number conflict among them): lines 1490-1491
LearnerRaise ==
    /\ learner.pc \in LearnerAwaits
    /\ learner' = [learner EXCEPT !.pc = "done", !.outcome = "caught"]
    /\ shttp' = LearnerCatch(shttp)
    /\ UNCHANGED skill_runs
    /\ UNCHANGED learnerFrame
    /\ UNCHANGED notSkill

NextSkill ==
    \/ RunSkillStart
    \/ \E ok \in BOOLEAN : EmbedReturn(ok)
    \/ \E row \in SkillRows : FindSkillReturn(row)
    \/ \E n \in -1..MaxVersionSteps : LoadVersionReturn(n)
    \/ DatabaseRaise
    \/ \E output \in AgentOutputs : StepAgentReturn(output)
    \/ \E output \in AgentOutputs : BaseAgentReturn(output)
    \/ \E status \in {401, 500} : AgentFail(status)
    \/ AgentRaise
    \/ InsertRunReturn
    \/ LearnerStart
    \/ \E ok \in BOOLEAN : LearnerReturn(ok)
    \/ \E mode \in {"merge", "insert"} : LearnerFindSkillReturn(mode)
    \/ LearnerSaveReturn
    \/ LearnerUpdateRunReturn
    \/ LearnerRaise

InitSkill ==
    /\ sreq \in SkillRequests
    /\ spc = "received"
    /\ POOL \in BOOLEAN
    /\ VECTOR_ENABLED \in BOOLEAN
    /\ skill = NoRow
    /\ steps = 0
    /\ step_results = <<>>
    /\ effects = NoEffects
    /\ shttp = NoSkillHttp
    /\ match_similarity = NoSimilarity
    /\ nearest = NoRow
    /\ skill_version_id = ""
    /\ agent_calls = <<>>
    /\ last_result = ""
    /\ skill_runs = <<>>
    /\ learner = NoLearner

PureIdle ==
    /\ calls = <<>>
    /\ ordered = Unset
    /\ schema = NonDictSchema
    /\ normalized = IdleSchema
    /\ renormalized = IdleSchema

(***************************************************************************)
(* Final text of an agent run: lines 896-904 of run_agent and              *)
(* _extract_response_text.  Texts are the strings below; str.strip() is    *)
(* given by its table on them.                                             *)
(***************************************************************************)
None == "None"                      \* None, or a value that is not a str

Strip(text) ==
    IF text \in {"", " "} THEN ""
    ELSE IF text = " m " THEN "m"
    ELSE IF text = " t " THEN "t"
    ELSE IF text = " b " THEN "b"
    ELSE IF text = " c " THEN "c"
    ELSE IF text \in {" y ", "y\n"} THEN "y"
    ELSE IF text = "x\n" THEN "x"
    ELSE IF text = "z\n" THEN "z"
    ELSE IF text = "default\n" THEN "default"
    ELSE text

\* output_parsed: None, an AssistantResponse (message is a str), a dict whose
\* "message" may be no str, or any other object
ParsedShapes ==
    [kind : {"model"}, message : {"", " ", " m "}]
    \cup [kind : {"dict"}, message : {None, "", " m "}]
    \cup {[kind |-> "none", message |-> None],
          [kind |-> "other", message |-> " m "]}

OutputTexts == {None, "", " ", " t "}

\* a part of an item's content list
Parts ==
    { [type |-> "output_text", text |-> " b "],
      [type |-> "output_text", text |-> " c "],
      [type |-> "output_text", text |-> ""],
      [type |-> "output_text", text |-> None],
      [type |-> "other", text |-> " b "] }

\* an output item: its content is a list of parts, or no list
Contents ==
    [isList : {TRUE}, parts : SeqsUpTo(Parts, MaxParts)]
    \cup {[isList |-> FALSE, parts |-> <<>>]}

\* response.output: a list of items, or no list
Outputs ==
    [isList : {TRUE}, items : SeqsUpTo(Contents, MaxItems)]
    \cup {[isList |-> FALSE, items |-> <<>>]}

ResponseShapes ==
    [output_parsed : ParsedShapes, output_text : OutputTexts, output : Outputs]

NoResponseShape ==
    [output_parsed |-> [kind |-> "none", message |-> None],
     output_text |-> None,
     output |-> [isList |-> FALSE, items |-> <<>>]]

NoText == [done |-> FALSE, result |-> ""]

\* the inner loop of _extract_response_text: the first part of type
\* output_text whose text is a str, or None
RECURSIVE FirstTextPart(_)
FirstTextPart(parts) ==
    IF parts = <<>> THEN None
    ELSE IF Head(parts).type = "output_text" /\ Head(parts).text # None
         THEN Head(parts).text
    ELSE FirstTextPart(Tail(parts))

\* the outer loop: items whose content is no list are passed over
RECURSIVE FirstTextBlock(_)
FirstTextBlock(items) ==
    IF items = <<>> THEN None
    ELSE IF ~Head(items).isList THEN FirstTextBlock(Tail(items))
    ELSE IF FirstTextPart(Head(items).parts) # None
         THEN FirstTextPart(Head(items).parts)
    ELSE FirstTextBlock(Tail(items))

_extract_response_text(r) ==
    IF r.output_text # None THEN r.output_text
    ELSE IF ~r.output.isList THEN ""
    ELSE IF FirstTextBlock(r.output.items) # None
         THEN FirstTextBlock(r.output.items)
    ELSE ""

_format_output(value) == IF value = None THEN "" ELSE value

\* lines 896-904
FinalText(r) ==
    LET parsed == r.output_parsed
        message == IF parsed.kind = "model" THEN parsed.message
                   ELSE IF parsed.kind = "dict" /\ parsed.message # None
                        THEN parsed.message
                   ELSE ""
        output == IF message = "" THEN _extract_response_text(r) ELSE message
    IN Strip(_format_output(output))

TextIdle ==
    /\ resp_shape = NoResponseShape
    /\ final_text = NoText

ExtractFinalText ==
    /\ ~final_text.done
    /\ final_text' = [done |-> TRUE, result |-> FinalText(resp_shape)]
    /\ UNCHANGED resp_shape
    /\ UNCHANGED notText

(***************************************************************************)
(* The skill catalogue and its writers.  assistant_skills holds the skill  *)
(* rows by id (the position, a fresh uuid4 in the code); of a row the      *)
(* model keeps user_id (every writer of this part works for the user "U"), *)
(* active_version_id and generalization_score.                             *)
(* assistant_skill_versions holds the version rows [id, skill_id,          *)
(* version, steps]; a version's uuid4 is written <<skill_id, version>>,    *)
(* which is as unique as the table's (skill_id, version), and its steps    *)
(* are one word for the whole list.  Every task is one                     *)
(* writer: a learner (_record_skill_background), a /feedback request       *)
(* (skill_feedback) or a cluster of the reprocessing script                *)
(* (_merge_cluster).  Each await of a database call is one step, so the    *)
(* tasks interleave between them as on the event loop.                     *)
(***************************************************************************)
SKILLS_GENERALIZATION_THRESHOLD == 75       \* hundredths

Scores == {40, 75, 90}              \* generalizationScore after the clamp
NoScore == -1                       \* generalization_score is None

Tasks == {"t1", "t2"}

NoTask ==
    [kind |-> "none", pc |-> "idle", skill_id |-> 0, version |-> 0,
     generalization_score |-> 0, candidate_score |-> NoScore,
     outcome |-> "none"]

VersionsOf(table, skill_id) == {row \in table : row.skill_id = skill_id}

\* SELECT COALESCE(MAX(version), 0)
MaxVersion(table, skill_id) ==
    IF VersionsOf(table, skill_id) = {} THEN 0
    ELSE CHOOSE v \in {row.version : row \in VersionsOf(table, skill_id)} :
            \A row \in VersionsOf(table, skill_id) : row.version <= v

NextVersionSkipping(table, skill_id) == MaxVersion(table, skill_id) + 2

_get_next_skill_version(table, skill_id) == MaxVersion(table, skill_id) + 1

\* a table that accepts a second row of the same (skill_id, version)
NoUniqueConstraint(table, skill_id, version) == FALSE

\* unique (skill_id, version) of assistant_skill_versions
UniqueViolation(table, skill_id, version) ==
    \E row \in table : row.skill_id = skill_id /\ row.version = version

MaxOf(a, b) == IF a >= b THEN a ELSE b

MergedScoreIncoming(candidate_score, generalization_score) ==
    generalization_score

\* lines 1429-1431
MergedScore(candidate_score, generalization_score) ==
    IF candidate_score # NoScore
    THEN MaxOf(candidate_score, generalization_score)
    ELSE generalization_score

VersionRow(skill_id, version) ==
    [id |-> <<skill_id, version>>, skill_id |-> skill_id, version |-> version,
     steps |-> "learned"]

PointerKept(skills, skill_id, version_id) == skills

\* UPDATE assistant_skills SET active_version_id = $1 WHERE id = $2, in the
\* transaction of the INSERT of the version
Promote(skills, skill_id, version_id) ==
    [skills EXCEPT ![skill_id].active_version_id = version_id]

\* a writer ends; of its local values the outcome is kept, and of a merge
\* the writer and the two scores
Done(t, outcome) ==
    task' = [task EXCEPT ![t] =
        [NoTask EXCEPT
            !.pc = "done", !.outcome = outcome,
            !.kind = IF outcome = "merged" THEN task[t].kind ELSE "none",
            !.generalization_score =
                IF outcome = "merged" THEN task[t].generalization_score ELSE 0,
            !.candidate_score =
                IF outcome = "merged" THEN task[t].candidate_score
                ELSE NoScore]]

CatalogueIdle ==
    /\ assistant_skills = <<>>
    /\ assistant_skill_versions = {}
    /\ task = [t \in Tasks |-> NoTask]

\* _record_skill_background when _decompose_skill, _generalize_skill or
\* _embed_text gives nothing: the learner returns
RecordSkillSkip(t) ==
    /\ task[t].pc \in {"idle", "done"}
    /\ task' = [task EXCEPT ![t] =
            [NoTask EXCEPT !.pc = "done", !.outcome = "skipped"]]
    /\ UNCHANGED <<assistant_skills, assistant_skill_versions>>
    /\ UNCHANGED notCatalogue

\* _record_skill_background up to the embedding of the generalised skill:
\* decompose, generalise, score, gate, embed
RecordSkillStart(t, score) ==
    /\ task[t].pc \in {"idle", "done"}
    /\ IF score < SKILLS_GENERALIZATION_THRESHOLD
       THEN task' = [task EXCEPT ![t] =
                [NoTask EXCEPT !.pc = "done", !.outcome = "skipped"]]
       ELSE task' = [task EXCEPT ![t] =
                [NoTask EXCEPT !.kind = "learner", !.pc = "find_skill",
                               !.generalization_score = score]]
    /\ UNCHANGED <<assistant_skills, assistant_skill_versions>>
    /\ UNCHANGED notCatalogue

\* _find_skill returns the nearest skill of the user, or None (no vector
\* support, no row); mergeable is merge_score >= the merge threshold
LearnerFindSkill(t, candidate, mergeable) ==
    /\ task[t].pc = "find_skill"
    /\ candidate \in DOMAIN assistant_skills \cup {0}
    /\ IF candidate # 0 /\ mergeable
       THEN task' = [task EXCEPT
                ![t].pc = "merge_next_version",
                ![t].skill_id = candidate,
                ![t].candidate_score =
                    assistant_skills[candidate].generalization_score]
       ELSE task' = [task EXCEPT ![t].pc = "save_skill"]
    /\ UNCHANGED <<assistant_skills, assistant_skill_versions>>
    /\ UNCHANGED notCatalogue

\* _save_skill: the skill row and its version 1 in one transaction
SaveSkill(t) ==
    /\ task[t].pc = "save_skill"
    /\ Len(assistant_skills) < MaxSkills
    /\ assistant_skills' =
        Append(assistant_skills,
               [user_id |-> "U",
                active_version_id |-> <<Len(assistant_skills) + 1, 1>>,
                generalization_score |-> task[t].generalization_score])
    /\ assistant_skill_versions' =
        assistant_skill_versions
            \cup {VersionRow(Len(assistant_skills) + 1, 1)}
    /\ Done(t, "inserted")
    /\ UNCHANGED notCatalogue

\* the read of _save_skill_merge and _save_skill_fix, on its own connection
\* before the transaction
GetNextSkillVersion(t) ==
    /\ task[t].pc \in {"merge_next_version", "fix_next_version"}
    /\ _get_next_skill_version(assistant_skill_versions, task[t].skill_id)
            <= MaxVersions
    /\ task' = [task EXCEPT
            ![t].version =
                _get_next_skill_version(assistant_skill_versions,
                                        task[t].skill_id),
            ![t].pc = IF task[t].pc = "merge_next_version"
                      THEN "merge_write" ELSE "fix_write"]
    /\ UNCHANGED <<assistant_skills, assistant_skill_versions>>
    /\ UNCHANGED notCatalogue

\* the transaction of _save_skill_merge; a rejected INSERT raises: the
\* learner logs it, the script ends on it.  The learner passes the merged
\* score of lines 1429-1431, the script the maximum it computed.
SaveSkillMerge(t) ==
    /\ task[t].pc = "merge_write"
    /\ IF UniqueViolation(assistant_skill_versions, task[t].skill_id,
                          task[t].version)
       THEN /\ Done(t, "failed")
            /\ UNCHANGED <<assistant_skills, assistant_skill_versions>>
       ELSE /\ assistant_skill_versions' =
                assistant_skill_versions
                    \cup {VersionRow(task[t].skill_id, task[t].version)}
            /\ assistant_skills' =
                [Promote(assistant_skills, task[t].skill_id,
                         <<task[t].skill_id, task[t].version>>) EXCEPT
                    ![task[t].skill_id].generalization_score =
                        IF task[t].kind = "learner"
                        THEN MergedScore(task[t].candidate_score,
                                         task[t].generalization_score)
                        ELSE task[t].generalization_score]
            /\ Done(t, "merged")
    /\ UNCHANGED notCatalogue

\* skill_feedback on a run linked to a skill, rated negative: the skill and
\* the version are loaded, _fix_skill_steps answers or fails
FeedbackStart(t, skill_id, fixed) ==
    /\ task[t].pc \in {"idle", "done"}
    /\ skill_id \in DOMAIN assistant_skills
    /\ IF fixed
       THEN task' = [task EXCEPT ![t] =
                [NoTask EXCEPT !.kind = "feedback", !.pc = "fix_next_version",
                               !.skill_id = skill_id]]
       ELSE task' = [task EXCEPT ![t] =
                [NoTask EXCEPT !.pc = "done", !.outcome = "not_updated"]]
    /\ UNCHANGED <<assistant_skills, assistant_skill_versions>>
    /\ UNCHANGED notCatalogue

\* the transaction of _save_skill_fix; a rejected INSERT raises out of
\* skill_feedback
SaveSkillFix(t) ==
    /\ task[t].pc = "fix_write"
    /\ IF UniqueViolation(assistant_skill_versions, task[t].skill_id,
                          task[t].version)
       THEN /\ Done(t, "failed")
            /\ UNCHANGED <<assistant_skills, assistant_skill_versions>>
       ELSE /\ assistant_skill_versions' =
                assistant_skill_versions
                    \cup {VersionRow(task[t].skill_id, task[t].version)}
            /\ assistant_skills' =
                Promote(assistant_skills, task[t].skill_id,
                        <<task[t].skill_id, task[t].version>>)
            /\ Done(t, "fixed")
    /\ UNCHANGED notCatalogue

\* _merge_cluster of the reprocessing script up to _save_skill_merge: base
\* is the item of the highest recomputed score, merged_score the maximum of
\* the recomputed scores of the cluster
MergeCluster(t, base, merged_score) ==
    /\ task[t].pc \in {"idle", "done"}
    /\ base \in DOMAIN assistant_skills
    /\ task' = [task EXCEPT ![t] =
            [NoTask EXCEPT !.kind = "reprocess", !.pc = "merge_next_version",
                           !.skill_id = base,
                           !.generalization_score = merged_score]]
    /\ UNCHANGED <<assistant_skills, assistant_skill_versions>>
    /\ UNCHANGED notCatalogue

NextCatalogue ==
    \E t \in Tasks :
        \/ RecordSkillSkip(t)
        \/ \E score \in Scores : RecordSkillStart(t, score)
        \/ \E candidate \in 0..MaxSkills, mergeable \in BOOLEAN :
                LearnerFindSkill(t, candidate, mergeable)
        \/ SaveSkill(t)
        \/ GetNextSkillVersion(t)
        \/ SaveSkillMerge(t)
        \/ \E skill_id \in 1..MaxSkills, fixed \in BOOLEAN :
                FeedbackStart(t, skill_id, fixed)
        \/ SaveSkillFix(t)
        \/ \E base \in 1..MaxSkills, merged_score \in Scores :
                MergeCluster(t, base, merged_score)

(***************************************************************************)
(* The list merges of a learner merge (lines 1415-1428).  An item is       *)
(* [text, valid]: text is the parameter's name, the trimmed string or the  *)
(* example's userInput; valid is FALSE for an item the loop passes over    *)
(* (no dict, a name or userInput that is no str, a blank string).          *)
(***************************************************************************)
SKILLS_MAX_PARAMETERS == 12
SKILLS_MAX_PRECONDITIONS == 8
SKILLS_MAX_SUCCESS_CRITERIA == 8
SKILLS_MAX_EXAMPLES == 6

MergeKinds == {"parameters", "preconditions", "success_criteria", "examples"}

\* str.lower() on the texts below
Lower(text) == IF text = "E1" THEN "e1" ELSE text

\* the body of the three loops: pass over invalid and seen items, append,
\* stop when the cap is reached
RECURSIVE MergeLoop(_, _, _, _, _)
MergeLoop(items, merged, seen, cap, fold) ==
    IF items = <<>> THEN merged
    ELSE LET item == Head(items)
             key == IF fold THEN Lower(item.text) ELSE item.text
         IN IF ~item.valid \/ key \in seen
            THEN MergeLoop(Tail(items), merged, seen, cap, fold)
            ELSE IF Len(merged) + 1 >= cap
            THEN Append(merged, item)
            ELSE MergeLoop(Tail(items), Append(merged, item),
                           seen \cup {key}, cap, fold)

_merge_parameters(existing, incoming) ==
    MergeLoop(incoming \o existing, <<>>, {}, SKILLS_MAX_PARAMETERS, FALSE)

_merge_string_lists(existing, incoming, max_items) ==
    MergeLoop(incoming \o existing, <<>>, {}, max_items, TRUE)

_merge_examples(existing, incoming) ==
    MergeLoop(incoming \o existing, <<>>, {}, SKILLS_MAX_EXAMPLES, FALSE)

\* lines 1415-1428
MergeLists(kind, existing, incoming) ==
    CASE kind = "parameters" -> _merge_parameters(existing, incoming)
      [] kind = "preconditions" ->
            _merge_string_lists(existing, incoming, SKILLS_MAX_PRECONDITIONS)
      [] kind = "success_criteria" ->
            _merge_string_lists(existing, incoming,
                                SKILLS_MAX_SUCCESS_CRITERIA)
      [] kind = "examples" -> _merge_examples(existing, incoming)

CapOf(kind) ==
    CASE kind = "parameters" -> SKILLS_MAX_PARAMETERS
      [] kind = "preconditions" -> SKILLS_MAX_PRECONDITIONS
      [] kind = "success_criteria" -> SKILLS_MAX_SUCCESS_CRITERIA
      [] kind = "examples" -> SKILLS_MAX_EXAMPLES

\* the candidate's list as _find_skill normalised it: valid items, at most
\* the cap
ExistingTexts ==
    <<"e1", "e2", "e3", "e4", "e5", "e6", "e7", "e8", "e9", "e10", "e11",
      "e12">>

ExistingLists(kind) ==
    {[i \in 1..n |-> [text |-> ExistingTexts[i], valid |-> TRUE]] :
        n \in 0..CapOf(kind)}

IncomingItems ==
    {[text |-> "e1", valid |-> TRUE], [text |-> "E1", valid |-> TRUE],
     [text |-> "n1", valid |-> TRUE], [text |-> "n2", valid |-> TRUE],
     [text |-> "", valid |-> FALSE]}

MergeArgs ==
    UNION {[kind : {kind}, existing : ExistingLists(kind),
            incoming : SeqsUpTo(IncomingItems, MaxIncoming)] :
           kind \in MergeKinds}

NoMergeArgs == [kind |-> "parameters", existing |-> <<>>, incoming |-> <<>>]

NoMerged == [done |-> FALSE, result |-> <<>>]

MergeIdle ==
    /\ merge_args = NoMergeArgs
    /\ merged_list = NoMerged

Merge ==
    /\ ~merged_list.done
    /\ merged_list' =
        [done |-> TRUE,
         result |-> MergeLists(merge_args.kind, merge_args.existing,
                               merge_args.incoming)]
    /\ UNCHANGED merge_args
    /\ UNCHANGED notMerge

(***************************************************************************)
(* /feedback (skill_feedback) over a store of two users.  The run rows     *)
(* are held by id (the position); of a row the model keeps user_id,        *)
(* skill_id, skill_version_id (0 and <<>> are NULL), feedback_rating and   *)
(* feedback_text.  Each await of skill_feedback is one step, so two        *)
(* requests interleave between them as on the event loop.                  *)
(***************************************************************************)
Users == {"U", "V"}
FeedbackIds == {"f1", "f2"}

NoSkillId == 0                      \* skill_id is NULL
NoVersionId == <<>>                 \* skill_version_id is NULL
NoRating == "none"                  \* feedback_rating is NULL

\* rating and feedback of a request; "neutral" takes the way of "positive"
FeedbackInputs ==
    {[rating |-> "positive", feedback |-> None],
     [rating |-> "negative", feedback |-> " t "],
     [rating |-> "negative", feedback |-> " "]}

RunRow(user_id, skill_id, version_id) ==
    [user_id |-> user_id, skill_id |-> skill_id,
     skill_version_id |-> version_id, feedback_rating |-> NoRating,
     feedback_text |-> None]

NoRun == [found |-> FALSE, skillId |-> NoSkillId,
          skillVersionId |-> NoVersionId]

\* _clamp_text(req.feedback or "", 2000) or None
FeedbackText(feedback) ==
    IF feedback = None THEN None
    ELSE IF Strip(feedback) = "" THEN None
    ELSE Strip(feedback)

GetSkillRunOfAnyUser(runs, run_id, user_id) ==
    IF run_id \in DOMAIN runs
    THEN [found |-> TRUE, skillId |-> runs[run_id].skill_id,
          skillVersionId |-> runs[run_id].skill_version_id]
    ELSE NoRun

\* SELECT ... WHERE id = $1 AND user_id = $2
_get_skill_run(runs, run_id, user_id) ==
    IF run_id \in DOMAIN runs /\ runs[run_id].user_id = user_id
    THEN [found |-> TRUE, skillId |-> runs[run_id].skill_id,
          skillVersionId |-> runs[run_id].skill_version_id]
    ELSE NoRun

UpdateNoRun(runs, run_id, user_id, rating, feedback) == runs

\* UPDATE ... SET feedback_rating, feedback_text WHERE id = $3 AND
\* user_id = $4
_update_skill_run_feedback(runs, run_id, user_id, rating, feedback) ==
    [k \in DOMAIN runs |->
        IF k = run_id /\ runs[k].user_id = user_id
        THEN [runs[k] EXCEPT !.feedback_rating = rating,
                             !.feedback_text = feedback]
        ELSE runs[k]]

\* SELECT ... FROM assistant_skills WHERE id = $1 AND user_id = $2
_load_skill(skills, skill_id, user_id) ==
    skill_id \in DOMAIN skills /\ skills[skill_id].user_id = user_id

\* SELECT ... FROM assistant_skill_versions WHERE id = $1
_load_skill_version(versions, version_id) ==
    {row \in versions : row.id = version_id}

\* line 1824: _save_skill_fix is awaited outside any try, what it raises
\* leaves skill_feedback
SaveFixFailure(answer) ==
    [answer EXCEPT !.pc = "done", !.status = 500,
                   !.detail = "internal_server_error"]

NoFeedback ==
    [pc |-> "idle", userId |-> "", runId |-> 0, rating |-> NoRating,
     feedback |-> None, skillId |-> NoSkillId,
     skillVersionId |-> NoVersionId, current_steps |-> "", version |-> 0,
     status |-> 0, detail |-> "", updated |-> FALSE,
     newVersionId |-> NoVersionId]

FeedbackIdle ==
    /\ assistant_skill_runs = <<>>
    /\ fb = [f \in FeedbackIds |-> NoFeedback]
    /\ accessed = {}

Touch(by, owner, table, how) ==
    [by |-> by, owner |-> owner, table |-> table, how |-> how]

\* SkillFeedbackResponse with updated = False
NotUpdated(f) ==
    fb' = [fb EXCEPT ![f].pc = "done", ![f].status = 200]

storeFrame == <<assistant_skills, assistant_skill_versions, task>>

\* lines 1720-1734: the request arrives
SkillFeedback(f, userId, runId, input) ==
    /\ fb[f].pc = "idle"
    /\ fb' = [fb EXCEPT ![f] =
            IF ~POOL
            THEN [NoFeedback EXCEPT !.pc = "done", !.userId = userId,
                                    !.runId = runId,
                                    !.rating = input.rating,
                                    !.status = 503,
                                    !.detail = "skills_pool_unavailable"]
            ELSE [NoFeedback EXCEPT !.pc = "get_run", !.userId = userId,
                                    !.runId = runId,
                                    !.rating = input.rating,
                                    !.feedback =
                                        FeedbackText(input.feedback)]]
    /\ UNCHANGED <<assistant_skill_runs, accessed>>
    /\ UNCHANGED storeFrame
    /\ UNCHANGED notFeedback

\* lines 1735-1738: _get_skill_run returned
GetSkillRunReturn(f) ==
    /\ fb[f].pc = "get_run"
    /\ LET run == _get_skill_run(assistant_skill_runs, fb[f].runId,
                                 fb[f].userId)
       IN  IF ~run.found
           THEN /\ fb' = [fb EXCEPT ![f].pc = "done", ![f].status = 404,
                                    ![f].detail = "skill_run_not_found"]
                /\ UNCHANGED accessed
           ELSE /\ fb' = [fb EXCEPT ![f].pc = "update_feedback",
                                    ![f].skillId = run.skillId,
                                    ![f].skillVersionId = run.skillVersionId]
                /\ accessed' = accessed \cup
                    {Touch(fb[f].userId,
                           assistant_skill_runs[fb[f].runId].user_id,
                           "runs", "read")}
    /\ UNCHANGED assistant_skill_runs
    /\ UNCHANGED storeFrame
    /\ UNCHANGED notFeedback

\* lines 1740-1765: _update_skill_run_feedback returned; the request ends
\* here unless the rating is negative and the run has skill and version
UpdateRunFeedbackReturn(f) ==
    /\ fb[f].pc = "update_feedback"
    /\ assistant_skill_runs' =
        _update_skill_run_feedback(assistant_skill_runs, fb[f].runId,
                                   fb[f].userId, fb[f].rating,
                                   fb[f].feedback)
    /\ accessed' = accessed \cup
        {Touch(fb[f].userId, assistant_skill_runs[k].user_id, "runs", "write")
            : k \in {j \in DOMAIN assistant_skill_runs :
                        assistant_skill_runs'[j] # assistant_skill_runs[j]}}
    /\ IF \/ fb[f].rating # "negative"
          \/ fb[f].skillId = NoSkillId
          \/ fb[f].skillVersionId = NoVersionId
       THEN NotUpdated(f)
       ELSE fb' = [fb EXCEPT ![f].pc = "load_skill"]
    /\ UNCHANGED storeFrame
    /\ UNCHANGED notFeedback

\* lines 1767-1777: _load_skill returned
LoadSkillReturn(f) ==
    /\ fb[f].pc = "load_skill"
    /\ IF _load_skill(assistant_skills, fb[f].skillId, fb[f].userId)
       THEN /\ fb' = [fb EXCEPT ![f].pc = "load_version"]
            /\ accessed' = accessed \cup
                {Touch(fb[f].userId, assistant_skills[fb[f].skillId].user_id,
                       "skills", "read")}
       ELSE /\ NotUpdated(f)
            /\ UNCHANGED accessed
    /\ UNCHANGED assistant_skill_runs
    /\ UNCHANGED storeFrame
    /\ UNCHANGED notFeedback

\* lines 1778-1803: _load_skill_version returned for the version of the run
\* (version_id = run.get("skillVersionId")), _fix_skill_steps is called with
\* the steps of that version
LoadSkillVersionReturn(f) ==
    /\ fb[f].pc = "load_version"
    /\ LET rows == _load_skill_version(assistant_skill_versions,
                                       fb[f].skillVersionId)
       IN  IF rows = {}
           THEN /\ NotUpdated(f)
                /\ UNCHANGED accessed
           ELSE /\ fb' = [fb EXCEPT
                        ![f].pc = "fix",
                        ![f].current_steps = (CHOOSE row \in rows : TRUE).steps]
                /\ accessed' = accessed \cup
                    {Touch(fb[f].userId,
                           assistant_skills[row.skill_id].user_id,
                           "versions", "read") : row \in rows}
    /\ UNCHANGED assistant_skill_runs
    /\ UNCHANGED storeFrame
    /\ UNCHANGED notFeedback

\* lines 1795-1823: _fix_skill_steps returned a step list, or None (the LLM
\* call raised, or its answer is no SkillFix)
FixSkillStepsReturn(f, fixed) ==
    /\ fb[f].pc = "fix"
    /\ IF fixed
       THEN fb' = [fb EXCEPT ![f].pc = "next_version"]
       ELSE NotUpdated(f)
    /\ UNCHANGED <<assistant_skill_runs, accessed>>
    /\ UNCHANGED storeFrame
    /\ UNCHANGED notFeedback

\* _save_skill_fix lines 934-939: the read of the next version number
FixNextVersionReturn(f) ==
    /\ fb[f].pc = "next_version"
    /\ _get_next_skill_version(assistant_skill_versions, fb[f].skillId)
            <= MaxVersions
    /\ fb' = [fb EXCEPT
            ![f].pc = "save_fix",
            ![f].version =
                _get_next_skill_version(assistant_skill_versions,
                                        fb[f].skillId)]
    /\ UNCHANGED <<assistant_skill_runs, accessed>>
    /\ UNCHANGED storeFrame
    /\ UNCHANGED notFeedback

\* _save_skill_fix lines 940-962 and skill_feedback lines 1824-1839: the
\* transaction inserts the version and moves the pointer, or the INSERT is
\* rejected
SaveSkillFixReturn(f) ==
    /\ fb[f].pc = "save_fix"
    /\ IF UniqueViolation(assistant_skill_versions, fb[f].skillId,
                          fb[f].version)
       THEN /\ fb' = [fb EXCEPT ![f] = SaveFixFailure(fb[f])]
            /\ UNCHANGED <<assistant_skills, assistant_skill_versions,
                           accessed>>
       ELSE /\ assistant_skill_versions' =
                assistant_skill_versions \cup
                    {[VersionRow(fb[f].skillId, fb[f].version)
                        EXCEPT !.steps = "fixed"]}
            /\ assistant_skills' =
                Promote(assistant_skills, fb[f].skillId,
                        <<fb[f].skillId, fb[f].version>>)
            /\ fb' = [fb EXCEPT
                        ![f].pc = "done", ![f].status = 200,
                        ![f].updated = TRUE,
                        ![f].newVersionId = <<fb[f].skillId, fb[f].version>>]
            /\ accessed' = accessed \cup
                {Touch(fb[f].userId, assistant_skills[fb[f].skillId].user_id,
                       "skills", "write")}
    /\ UNCHANGED <<assistant_skill_runs, task>>
    /\ UNCHANGED notFeedback

NextFeedback ==
    \E f \in FeedbackIds :
        \/ \E userId \in Users, runId \in 1..(MaxRuns + 1),
              input \in FeedbackInputs :
                SkillFeedback(f, userId, runId, input)
        \/ GetSkillRunReturn(f)
        \/ UpdateRunFeedbackReturn(f)
        \/ LoadSkillReturn(f)
        \/ LoadSkillVersionReturn(f)
        \/ \E fixed \in BOOLEAN : FixSkillStepsReturn(f, fixed)
        \/ FixNextVersionReturn(f)
        \/ SaveSkillFixReturn(f)

(***************************************************************************)
(* The store accesses of /run and of the learner, for the users of the     *)
(* store above: which rows a request of a user reads and writes.  The      *)
(* steps between the accesses are those of the run_skill model; here a     *)
(* request is one step.                                                    *)
(***************************************************************************)
FindSkillOfAnyUser(skills, user_id) == DOMAIN skills

\* SELECT ... WHERE user_id = $2 AND embedding IS NOT NULL ORDER BY
\* embedding <-> $1 LIMIT 1: the rows one of which is the nearest
_find_skill(skills, user_id) ==
    {id \in DOMAIN skills : skills[id].user_id = user_id}

\* UPDATE ... SET skill_id, skill_version_id WHERE id = $3 AND user_id = $4
_update_skill_run_skill(runs, run_id, user_id, skill_id, version_id) ==
    [k \in DOMAIN runs |->
        IF k = run_id /\ runs[k].user_id = user_id
        THEN [runs[k] EXCEPT !.skill_id = skill_id,
                             !.skill_version_id = version_id]
        ELSE runs[k]]

OwnerOfVersion(version_id) ==
    {assistant_skills[row.skill_id].user_id :
        row \in _load_skill_version(assistant_skill_versions, version_id)}

\* run_skill with a userId and a query: the search, the load of the active
\* version, the insert of the run; found = 0 when no skill matches, and the
\* run has no references unless the version is loaded
RunSkill(userId, found) ==
    /\ POOL
    /\ Len(assistant_skill_runs) < MaxRuns
    /\ found \in _find_skill(assistant_skills, userId) \cup {NoSkillId}
    /\ LET version_id ==
               IF found = NoSkillId THEN NoVersionId
               ELSE assistant_skills[found].active_version_id
           loaded == _load_skill_version(assistant_skill_versions, version_id)
       IN  /\ assistant_skill_runs' =
                Append(assistant_skill_runs,
                       IF loaded = {}
                       THEN RunRow(userId, NoSkillId, NoVersionId)
                       ELSE RunRow(userId, found, version_id))
           /\ accessed' = accessed
                \cup {Touch(userId, userId, "runs", "write")}
                \cup {Touch(userId, assistant_skills[id].user_id, "skills",
                            "read") : id \in {found} \ {NoSkillId}}
                \cup {Touch(userId, owner, "versions", "read") :
                        owner \in OwnerOfVersion(version_id)}
    /\ UNCHANGED fb
    /\ UNCHANGED storeFrame
    /\ UNCHANGED notFeedback

\* _record_skill_background for the base run run_id of the user, from
\* _find_skill on: it merges into the candidate (a version and the pointer)
\* or inserts a skill with its version 1, and links the run
RecordSkill(userId, run_id, candidate, mergeable) ==
    /\ POOL
    /\ run_id \in DOMAIN assistant_skill_runs
    /\ assistant_skill_runs[run_id].user_id = userId
    /\ assistant_skill_runs[run_id].skill_id = NoSkillId
    /\ candidate \in _find_skill(assistant_skills, userId) \cup {NoSkillId}
    /\ IF candidate # NoSkillId /\ mergeable
       THEN LET version ==
                    _get_next_skill_version(assistant_skill_versions,
                                            candidate)
            IN  /\ version <= MaxVersions
                /\ assistant_skill_versions' =
                    assistant_skill_versions \cup
                        {[VersionRow(candidate, version)
                            EXCEPT !.steps = "merged"]}
                /\ assistant_skills' =
                    Promote(assistant_skills, candidate,
                            <<candidate, version>>)
                /\ assistant_skill_runs' =
                    _update_skill_run_skill(assistant_skill_runs, run_id,
                                            userId, candidate,
                                            <<candidate, version>>)
                /\ accessed' = accessed \cup
                    {Touch(userId, assistant_skills[candidate].user_id,
                           "skills", "write"),
                     Touch(userId, userId, "runs", "write")}
       ELSE /\ assistant_skills' =
                Append(assistant_skills,
                       [user_id |-> userId,
                        active_version_id |->
                            <<Len(assistant_skills) + 1, 1>>,
                        generalization_score |-> 75])
            /\ assistant_skill_versions' =
                assistant_skill_versions
                    \cup {VersionRow(Len(assistant_skills) + 1, 1)}
            /\ assistant_skill_runs' =
                _update_skill_run_skill(assistant_skill_runs, run_id, userId,
                                        Len(assistant_skills) + 1,
                                        <<Len(assistant_skills) + 1, 1>>)
            /\ accessed' = accessed \cup
                {Touch(userId, userId, "skills", "write"),
                 Touch(userId, userId, "runs", "write")}
                \cup {Touch(userId, assistant_skills[id].user_id, "skills",
                            "read") : id \in {candidate} \ {NoSkillId}}
    /\ UNCHANGED <<fb, task>>
    /\ UNCHANGED notFeedback

\* one /feedback request among the /run requests and the learners
NextStore ==
    \/ \E userId \in Users, runId \in 1..(MaxRuns + 1),
          input \in FeedbackInputs :
            SkillFeedback("f1", userId, runId, input)
    \/ GetSkillRunReturn("f1")
    \/ UpdateRunFeedbackReturn("f1")
    \/ LoadSkillReturn("f1")
    \/ LoadSkillVersionReturn("f1")
    \/ \E fixed \in BOOLEAN : FixSkillStepsReturn("f1", fixed)
    \/ FixNextVersionReturn("f1")
    \/ SaveSkillFixReturn("f1")
    \/ \E userId \in Users, found \in 0..(MaxRuns + 1) :
            RunSkill(userId, found)
    \/ \E userId \in Users, run_id \in 1..MaxRuns,
          candidate \in 0..(MaxRuns + 1), mergeable \in BOOLEAN :
            RecordSkill(userId, run_id, candidate, mergeable)

(***************************************************************************)
(* _record_skill_background step by step (lines 1269-1491): two learner    *)
(* tasks of the user "U", each created by a base run of its own, over the  *)
(* catalogue and the run rows.  Each await is one step.  A version written  *)
(* by a learner carries the learner's name as its steps.  Merge scores are *)
(* in ten-thousandths, similarities in hundredths.                         *)
(***************************************************************************)
SKILLS_MERGE_SIMILARITY_THRESHOLD == 75
SKILLS_MERGE_SIMILARITY_EPS == 5

\* the run whose base answer the learner generalises
RunOf(t) == IF t = "t1" THEN 1 ELSE 2

\* _step_similarity of the new steps against the candidate's
StepSims == {0, 74, 75}

\* what _find_skill returns of the candidate: its embedding with the cosine
\* to the new skill, or the distance only, or neither
CandidateRows ==
    [present : {TRUE}, id : {""}, hasEmbedding : {TRUE},
     cosine : {-20, 69, 70}, distance : {20}, active_version_id : {""}]
    \cup [present : {TRUE}, id : {""}, hasEmbedding : {FALSE},
          cosine : {0}, distance : {-1, 80}, active_version_id : {""}]

Max3(a, b, c) == MaxOf(a, MaxOf(b, c))

\* the weighted term alone
MergeScoreWeightedOnly(similarity, step_sim) ==
    IF similarity = NoSimilarity THEN 100 * step_sim
    ELSE 70 * similarity + 30 * step_sim

\* lines 1399-1404
MergeScore(similarity, step_sim) ==
    IF similarity = NoSimilarity THEN 100 * step_sim
    ELSE Max3(70 * similarity + 30 * step_sim,
              100 * (IF similarity + SKILLS_MERGE_SIMILARITY_EPS > 100
                     THEN 100
                     ELSE similarity + SKILLS_MERGE_SIMILARITY_EPS),
              100 * step_sim)

\* line 1414
Mergeable(merge_score) ==
    merge_score >= 100 * SKILLS_MERGE_SIMILARITY_THRESHOLD

NoMergeScore == -1

NoLearnerTask ==
    [pc |-> "created", similar |-> FALSE, generalization_score |-> 0,
     candidate |-> NoSkillId, candidate_score |-> NoScore,
     similarity |-> NoSimilarity, step_sim |-> 0,
     merge_score |-> NoMergeScore, version |-> 0, skill_id |-> NoSkillId,
     version_id |-> NoVersionId, writes |-> 0, outcome |-> "none"]

\* a gate that lets every score pass
PassesGateAlways(score) == TRUE

\* lines 1353-1360: `if generalization_score < THRESHOLD: return`
PassesGate(score) == ~(score < SKILLS_GENERALIZATION_THRESHOLD)

\* the learner returns, or the except of lines 1490-1491 ends it
Ended(t, outcome) ==
    task' = [task EXCEPT ![t].pc = "done", ![t].outcome = outcome]

\* the skills that carry what learner t generalised
CarriedBy(versions, t) == {row.skill_id : row \in {r \in versions : r.steps = t}}

learnerStore ==
    <<assistant_skills, assistant_skill_versions, assistant_skill_runs>>

learnerFrame2 == <<fb, accessed, notFeedback>>

\* lines 1280-1284: the task starts; without a pool it returns
BackgroundStart(t) ==
    /\ task[t].pc = "created"
    /\ IF POOL
       THEN task' = [task EXCEPT ![t].pc = "decompose"]
       ELSE Ended(t, "skipped")
    /\ UNCHANGED learnerStore
    /\ UNCHANGED learnerFrame2

\* _decompose_skill returns a definition or None: lines 1285-1295
DecomposeReturn(t, ok) ==
    /\ task[t].pc = "decompose"
    /\ IF ok
       THEN task' = [task EXCEPT ![t].pc = "generalize"]
       ELSE Ended(t, "skipped")
    /\ UNCHANGED learnerStore
    /\ UNCHANGED learnerFrame2

\* _generalize_skill returns or gives None, then the gate: lines 1296-1360
GeneralizeReturn(t, ok, score) ==
    /\ task[t].pc = "generalize"
    /\ IF ~ok THEN Ended(t, "skipped")
       ELSE IF PassesGate(score)
       THEN task' = [task EXCEPT ![t].pc = "embed",
                                 ![t].generalization_score = score]
       ELSE task' = [task EXCEPT ![t].pc = "done",
                                 ![t].outcome = "skipped",
                                 ![t].generalization_score = score]
    /\ UNCHANGED learnerStore
    /\ UNCHANGED learnerFrame2

\* _embed_text returns a vector or None: lines 1368-1371
EmbedTextReturn(t, ok) ==
    /\ task[t].pc = "embed"
    /\ IF ok
       THEN task' = [task EXCEPT ![t].pc = "find_skill"]
       ELSE Ended(t, "skipped")
    /\ UNCHANGED learnerStore
    /\ UNCHANGED learnerFrame2

\* the merge evaluation of lines 1386-1414 and the branch taken
Evaluate(t, candidate, candidate_score, similarity, step_sim) ==
    task' = [task EXCEPT
        ![t].candidate = candidate,
        ![t].candidate_score = candidate_score,
        ![t].similarity = similarity,
        ![t].step_sim = step_sim,
        ![t].merge_score = MergeScore(similarity, step_sim),
        ![t].pc = IF Mergeable(MergeScore(similarity, step_sim))
                  THEN "merge_next_version" ELSE "save_skill"]

\* the two generalised skills are similar: against a skill that carries the
\* other learner's, the merge score is at least the threshold
SimilarEnough(t, candidate, similarity, step_sim) ==
    (task[t].similar
        /\ \E other \in Tasks \ {t} :
                candidate \in CarriedBy(assistant_skill_versions, other))
        => Mergeable(MergeScore(similarity, step_sim))

\* _find_skill returns the nearest skill of the user or None: lines
\* 1378-1385; without an active version the evaluation follows at once
FindCandidateReturn(t, candidate, row) ==
    /\ task[t].pc = "find_skill"
    /\ IF _find_skill(assistant_skills, "U") = {}
       THEN candidate = NoSkillId
       ELSE candidate \in _find_skill(assistant_skills, "U")
    /\ IF candidate = NoSkillId
       THEN task' = [task EXCEPT ![t].pc = "save_skill"]
       ELSE IF assistant_skills[candidate].active_version_id # NoVersionId
       THEN task' = [task EXCEPT ![t].pc = "load_version",
                                 ![t].candidate = candidate,
                                 ![t].candidate_score =
                                    assistant_skills[candidate]
                                        .generalization_score,
                                 ![t].similarity = MatchSimilarity(row)]
       ELSE /\ SimilarEnough(t, candidate, MatchSimilarity(row), 0)
            /\ Evaluate(t, candidate,
                        assistant_skills[candidate].generalization_score,
                        MatchSimilarity(row), 0)
    /\ UNCHANGED learnerStore
    /\ UNCHANGED learnerFrame2

\* _load_skill_version returns: lines 1381-1385, then lines 1386-1414
LoadCandidateVersionReturn(t, step_sim) ==
    /\ task[t].pc = "load_version"
    /\ SimilarEnough(t, task[t].candidate, task[t].similarity, step_sim)
    /\ Evaluate(t, task[t].candidate, task[t].candidate_score,
                task[t].similarity, step_sim)
    /\ UNCHANGED learnerStore
    /\ UNCHANGED learnerFrame2

\* _get_next_skill_version of _save_skill_merge, before its transaction
MergeNextVersionReturn(t) ==
    /\ task[t].pc = "merge_next_version"
    /\ task' = [task EXCEPT
            ![t].version =
                _get_next_skill_version(assistant_skill_versions,
                                        task[t].candidate),
            ![t].pc = "merge_write"]
    /\ UNCHANGED learnerStore
    /\ UNCHANGED learnerFrame2

\* the transaction of _save_skill_merge (lines 983-1024); a rejected INSERT
\* raises into the except of the learner
SaveSkillMergeReturn(t) ==
    /\ task[t].pc = "merge_write"
    /\ IF UniqueViolation(assistant_skill_versions, task[t].candidate,
                          task[t].version)
       THEN /\ Ended(t, "conflict")
            /\ UNCHANGED <<assistant_skills, assistant_skill_versions>>
       ELSE /\ assistant_skill_versions' =
                assistant_skill_versions \cup
                    {[VersionRow(task[t].candidate, task[t].version)
                        EXCEPT !.steps = t]}
            /\ assistant_skills' =
                [Promote(assistant_skills, task[t].candidate,
                         <<task[t].candidate, task[t].version>>) EXCEPT
                    ![task[t].candidate].generalization_score =
                        MergedScore(task[t].candidate_score,
                                    task[t].generalization_score)]
            /\ task' = [task EXCEPT
                    ![t].pc = "update_run",
                    ![t].skill_id = task[t].candidate,
                    ![t].version_id = <<task[t].candidate, task[t].version>>,
                    ![t].writes = @ + 1]
    /\ UNCHANGED <<assistant_skill_runs>>
    /\ UNCHANGED learnerFrame2

\* _save_skill (lines 1465-1475): the skill and its version 1
SaveSkillReturn(t) ==
    /\ task[t].pc = "save_skill"
    /\ assistant_skills' =
        Append(assistant_skills,
               [user_id |-> "U",
                active_version_id |-> <<Len(assistant_skills) + 1, 1>>,
                generalization_score |-> task[t].generalization_score])
    /\ assistant_skill_versions' =
        assistant_skill_versions \cup
            {[VersionRow(Len(assistant_skills) + 1, 1) EXCEPT !.steps = t]}
    /\ task' = [task EXCEPT
            ![t].pc = "update_run",
            ![t].skill_id = Len(assistant_skills) + 1,
            ![t].version_id = <<Len(assistant_skills) + 1, 1>>,
            ![t].writes = @ + 1]
    /\ UNCHANGED <<assistant_skill_runs>>
    /\ UNCHANGED learnerFrame2

\* _update_skill_run_skill returns: lines 1443-1457 and 1476-1489
UpdateRunSkillReturn(t) ==
    /\ task[t].pc = "update_run"
    /\ assistant_skill_runs' =
        _update_skill_run_skill(assistant_skill_runs, RunOf(t), "U",
                                task[t].skill_id, task[t].version_id)
    /\ Ended(t, IF task[t].candidate = task[t].skill_id
                THEN "merged" ELSE "inserted")
    /\ UNCHANGED <<assistant_skills, assistant_skill_versions>>
    /\ UNCHANGED learnerFrame2

\* an awaited call raises for a reason of its own (the LLM, the embedding
\* provider, the database): lines 1490-1491
BackgroundRaise(t) ==
    /\ task[t].pc \in {"decompose", "generalize", "embed", "find_skill",
                       "load_version", "merge_next_version", "merge_write",
                       "save_skill", "update_run"}
    /\ Ended(t, "raised")
    /\ UNCHANGED learnerStore
    /\ UNCHANGED learnerFrame2

NextLearner ==
    \E t \in Tasks :
        \/ BackgroundStart(t)
        \/ \E ok \in BOOLEAN : DecomposeReturn(t, ok)
        \/ \E ok \in BOOLEAN, score \in {40, 75} : GeneralizeReturn(t, ok, score)
        \/ \E ok \in BOOLEAN : EmbedTextReturn(t, ok)
        \/ \E candidate \in 0..3, row \in CandidateRows :
                FindCandidateReturn(t, candidate, row)
        \/ \E step_sim \in StepSims : LoadCandidateVersionReturn(t, step_sim)
        \/ MergeNextVersionReturn(t)
        \/ SaveSkillMergeReturn(t)
        \/ SaveSkillReturn(t)
        \/ UpdateRunSkillReturn(t)
        \/ BackgroundRaise(t)

(***************************************************************************)
(* The prompt file of the Agent service and its cache (lines 285-329).     *)
(* The file is shared with whatever else writes it: another worker, an     *)
(* operator.  A write leaves the modification time where it was when it    *)
(* falls into the same tick of the file system clock as the write before.  *)
(* os.path.getmtime and open raise OSError when the environment makes      *)
(* them; the handlers are async def without an await, so a load or a save  *)
(* is one step.                                                            *)
(***************************************************************************)
DEFAULT_PROMPT == "default"
NoMtime == -1                       \* mtime is None

PromptValues == {" ", "x", " y "}   \* the prompt of a POST /prompt
FileTexts == {"", " ", "x\n", "y\n", "z\n"}

\* text + "\n"
WithNewline(text) ==
    IF text = "x" THEN "x\n"
    ELSE IF text = "y" THEN "y\n"
    ELSE IF text = DEFAULT_PROMPT THEN "default\n"
    ELSE text

NoPromptFile == [exists |-> FALSE, text |-> "", mtime |-> 0, by |-> "none"]
NoPromptResult ==
    [op |-> "none", value |-> "", reread |-> FALSE, raised |-> FALSE]

\* a write of the file, in the tick of the write before or in a later one
WriteFile(file, text, later, by) ==
    [exists |-> TRUE, text |-> text,
     mtime |-> IF later THEN file.mtime + 1 ELSE file.mtime, by |-> by]

\* lines 285-293
_ensure_prompt_file(file, later) ==
    IF file.exists THEN file
    ELSE WriteFile(file, WithNewline(DEFAULT_PROMPT), later, "ensure")

\* what _load_prompt_text reads when it does not answer from the cache
ReadPromptText(file, readOk) ==
    LET text == IF readOk THEN Strip(file.text) ELSE Strip(DEFAULT_PROMPT)
    IN  IF text = "" THEN DEFAULT_PROMPT ELSE text

\* line 302
CacheValid(cache, cached_mtime, mtime) ==
    cache # None /\ mtime # NoMtime /\ cached_mtime = mtime

PromptIdle ==
    /\ prompt_file = NoPromptFile
    /\ _prompt_cache = None
    /\ _prompt_mtime = NoMtime
    /\ prompt_result = NoPromptResult

\* _load_prompt_text: lines 295-314
LoadPromptText(later, mtimeOk, readOk) ==
    LET file == _ensure_prompt_file(prompt_file, later)
        mtime == IF mtimeOk THEN file.mtime ELSE NoMtime
    IN  /\ file.mtime <= MaxMtime
        /\ prompt_file' = file
        /\ IF CacheValid(_prompt_cache, _prompt_mtime, mtime)
           THEN /\ prompt_result' = [op |-> "load", value |-> _prompt_cache,
                                     reread |-> FALSE, raised |-> FALSE]
                /\ UNCHANGED <<_prompt_cache, _prompt_mtime>>
           ELSE /\ _prompt_cache' = ReadPromptText(file, readOk)
                /\ _prompt_mtime' = mtime
                /\ prompt_result' =
                    [op |-> "load", value |-> ReadPromptText(file, readOk),
                     reread |-> TRUE, raised |-> FALSE]
        /\ UNCHANGED notPrompt

\* _save_prompt_text: lines 316-329
SavePromptText(value, later, mtimeOk) ==
    /\ IF Strip(value) = ""
       THEN /\ prompt_result' = [op |-> "save", value |-> "",
                                 reread |-> FALSE, raised |-> TRUE]
            /\ UNCHANGED <<prompt_file, _prompt_cache, _prompt_mtime>>
       ELSE LET file == WriteFile(prompt_file, WithNewline(Strip(value)),
                                  later, "save")
            IN  /\ file.mtime <= MaxMtime
                /\ prompt_file' = file
                /\ _prompt_cache' = Strip(value)
                /\ _prompt_mtime' = IF mtimeOk THEN file.mtime ELSE NoMtime
                /\ prompt_result' = [op |-> "save", value |-> Strip(value),
                                     reread |-> FALSE, raised |-> FALSE]
    /\ UNCHANGED notPrompt

\* something else writes the file
ExternalWrite(text, later) ==
    /\ WriteFile(prompt_file, text, later, "other").mtime <= MaxMtime
    /\ prompt_file' = WriteFile(prompt_file, text, later, "other")
    /\ prompt_result' = NoPromptResult
    /\ UNCHANGED <<_prompt_cache, _prompt_mtime>>
    /\ UNCHANGED notPrompt

NextPrompt ==
    \/ \E later, mtimeOk, readOk \in BOOLEAN :
            LoadPromptText(later, mtimeOk, readOk)
    \/ \E value \in PromptValues, later, mtimeOk \in BOOLEAN :
            SavePromptText(value, later, mtimeOk)
    \/ \E text \in FileTexts, later \in BOOLEAN : ExternalWrite(text, later)

\* one request arrives, at the Agent or at the Skill Engine
Init ==
    /\ PureIdle
    /\ TextIdle
    /\ CatalogueIdle
    /\ MergeIdle
    /\ FeedbackIdle
    /\ PromptIdle
    /\ \/ InitAgent /\ SkillIdle
       \/ AgentIdle /\ InitSkill

Next == NextAgent \/ NextSkill

Spec == Init /\ [][Next]_vars

InitPrio ==
    /\ calls \in SeqsUpTo(SortCalls, MaxSortLen)
    /\ ordered = Unset
    /\ schema = NonDictSchema
    /\ normalized = IdleSchema
    /\ renormalized = IdleSchema
    /\ AgentIdle
    /\ SkillIdle
    /\ TextIdle
    /\ CatalogueIdle
    /\ MergeIdle
    /\ FeedbackIdle
    /\ PromptIdle

Prioritize ==
    /\ ~ordered.done
    /\ ordered' = [done |-> TRUE, result |-> _prioritize_tool_calls(calls)]
    /\ UNCHANGED <<calls, schema, normalized, renormalized>>
    /\ UNCHANGED notPure

NextPrio == Prioritize

SpecPrio == InitPrio /\ [][NextPrio]_vars

(***************************************************************************)
(* SpecNorm                                                                *)
(***************************************************************************)
InitNorm ==
    /\ schema \in Schemas
    /\ normalized = IdleSchema
    /\ renormalized = IdleSchema
    /\ calls = <<>>
    /\ ordered = Unset
    /\ AgentIdle
    /\ SkillIdle
    /\ TextIdle
    /\ CatalogueIdle
    /\ MergeIdle
    /\ FeedbackIdle
    /\ PromptIdle

Normalize ==
    /\ ~normalized.done
    /\ normalized' = [done |-> TRUE, result |-> _normalize_tool_schema(schema)]
    /\ UNCHANGED <<schema, renormalized, calls, ordered>>
    /\ UNCHANGED notPure

Renormalize ==
    /\ normalized.done
    /\ ~renormalized.done
    /\ renormalized' = [done |-> TRUE,
                        result |-> _normalize_tool_schema(normalized.result)]
    /\ UNCHANGED <<schema, normalized, calls, ordered>>
    /\ UNCHANGED notPure

NextNorm == Normalize \/ Renormalize

SpecNorm == InitNorm /\ [][NextNorm]_vars

\* the final text of one response
InitText ==
    /\ resp_shape \in ResponseShapes
    /\ final_text = NoText
    /\ PureIdle
    /\ AgentIdle
    /\ SkillIdle
    /\ CatalogueIdle
    /\ MergeIdle
    /\ FeedbackIdle
    /\ PromptIdle

\* the catalogue, empty, and its writers
InitCatalogue ==
    /\ CatalogueIdle
    /\ MergeIdle
    /\ FeedbackIdle
    /\ PromptIdle
    /\ PureIdle
    /\ AgentIdle
    /\ SkillIdle
    /\ TextIdle

SpecCatalogue == InitCatalogue /\ [][NextCatalogue]_vars

\* one merge of two lists
InitMerge ==
    /\ merge_args \in MergeArgs
    /\ merged_list = NoMerged
    /\ PureIdle
    /\ AgentIdle
    /\ SkillIdle
    /\ TextIdle
    /\ CatalogueIdle
    /\ FeedbackIdle
    /\ PromptIdle

NextMerge == Merge

SpecMerge == InitMerge /\ [][NextMerge]_vars

InitFeedback ==
    /\ \E n \in 1..2, k \in 1..2 :
        /\ k <= n
        /\ assistant_skills =
            <<[user_id |-> "U", active_version_id |-> <<1, n>>,
               generalization_score |-> 75],
              [user_id |-> "V", active_version_id |-> <<2, 1>>,
               generalization_score |-> 75]>>
        /\ assistant_skill_versions =
            {VersionRow(1, 1), VersionRow(2, 1)} \cup
            {[VersionRow(1, v) EXCEPT !.steps = "merged"] : v \in 2..n}
        /\ assistant_skill_runs =
            <<RunRow("U", 1, <<1, k>>), RunRow("U", NoSkillId, NoVersionId),
              RunRow("V", 2, <<2, 1>>)>>
    /\ task = [t \in Tasks |-> NoTask]
    /\ fb = [f \in FeedbackIds |-> NoFeedback]
    /\ accessed = {}
    /\ POOL \in BOOLEAN
    /\ SkillQuiet
    /\ PureIdle
    /\ AgentIdle
    /\ TextIdle
    /\ MergeIdle
    /\ PromptIdle

SpecFeedback == InitFeedback /\ [][NextFeedback]_vars

SpecStore == InitFeedback /\ [][NextStore]_vars

\* the service starts with an empty cache, whatever the file
InitPrompt ==
    /\ prompt_file \in
            {NoPromptFile} \cup
            {[exists |-> TRUE, text |-> text, mtime |-> 0, by |-> "other"] :
                text \in FileTexts}
    /\ _prompt_cache = None
    /\ _prompt_mtime = NoMtime
    /\ prompt_result = NoPromptResult
    /\ PureIdle
    /\ AgentIdle
    /\ SkillIdle
    /\ TextIdle
    /\ CatalogueIdle
    /\ MergeIdle
    /\ FeedbackIdle

SpecPrompt == InitPrompt /\ [][NextPrompt]_vars

\* requests with an allow-list, against tool servers of several tool lists
ToolRequests ==
    [apiKey : {"sk-test"}, mcp : BOOLEAN, maxTurns : {-1},
     allowedTools : AllowLists]

ToolShapes ==
    { FunctionCall("edge", "json_create", TRUE),
      FunctionCall("text", "bad", TRUE),
      FunctionCall("node", "json_list", TRUE),
      [type |-> "message", name |-> "", arguments |-> "None",
       hasId |-> FALSE] }

ToolOutputs == {ItemsOf(sh) : sh \in SeqsUpTo(ToolShapes, MaxCalls)}

InitTools ==
    /\ req \in ToolRequests
    /\ pc = "received"
    /\ mcp = NoSession
    /\ response = NoResponse
    /\ tool_calls = <<>>
    /\ idx = 0
    /\ outputs = <<>>
    /\ sent = NoSent
    /\ parseCalls = 0
    /\ parse_kwargs = NoKwargs
    /\ function_tools = <<>>
    /\ mcp_tools = <<>>
    /\ toolCalls = 0
    /\ toolLog = <<>>
    /\ exc = NoExc
    /\ http = NoHttp
    /\ PureIdle
    /\ SkillIdle
    /\ TextIdle
    /\ CatalogueIdle
    /\ MergeIdle
    /\ FeedbackIdle
    /\ PromptIdle

NextTools ==
    \/ RunAgentStart
    \/ \E listed \in ServerTools : ListToolsReturn(listed)
    \/ ListToolsRaise
    \/ \E out \in (IF response.id < MaxRounds THEN ToolOutputs
                   ELSE {<<>>}) : ParseReturn(out)
    \/ \E status \in StatusCodes : ParseRaiseStatus(status)
    \/ ParseRaiseOther
    \/ \E isError \in BOOLEAN : CallToolReturn(isError)
    \/ CallToolRaise
    \/ Cancel
    \/ ExitSession
    \/ ExitStreams
    \/ ExitHttpClient
    \/ EndRun

SpecTools == InitTools /\ [][NextTools]_vars

\* two base runs of the user "U" have answered and created their learners;
\* the catalogue is empty or holds one skill of the user
InitLearner ==
    /\ \/ /\ assistant_skills = <<>>
          /\ assistant_skill_versions = {}
       \/ /\ assistant_skills =
                <<[user_id |-> "U", active_version_id |-> <<1, 1>>,
                   generalization_score |-> 90]>>
          /\ assistant_skill_versions = {VersionRow(1, 1)}
    /\ assistant_skill_runs =
            <<RunRow("U", NoSkillId, NoVersionId),
              RunRow("U", NoSkillId, NoVersionId)>>
    /\ \E similar \in BOOLEAN :
            task = [t \in Tasks |-> [NoLearnerTask EXCEPT !.similar = similar]]
    /\ fb = [f \in FeedbackIds |-> NoFeedback]
    /\ accessed = {}
    /\ POOL \in BOOLEAN
    /\ SkillQuiet
    /\ PureIdle
    /\ AgentIdle
    /\ TextIdle
    /\ MergeIdle
    /\ PromptIdle

SpecLearner == InitLearner /\ [][NextLearner]_vars

NextText == ExtractFinalText

SpecText == InitText /\ [][NextText]_vars


\* ---- C1
IsEdgeCreate(call) ==
    /\ call.name = "edge"
    /\ call.arguments \in {"json_create", "dict_create"}

IsOther(call) == ~IsEdgeCreate(call)

\* C1: the result of _prioritize_tool_calls is a permutation of its input in
\* which every edge/create call comes after every other call, and the calls of
\* equal priority (the edge/create calls among themselves, the others among
\* themselves) keep their input order.
C1_StableSort ==
    ordered.done =>
        /\ Len(ordered.result) = Len(calls)
        /\ SelectSeq(ordered.result, IsOther) = SelectSeq(calls, IsOther)
        /\ SelectSeq(ordered.result, IsEdgeCreate) = SelectSeq(calls, IsEdgeCreate)
        /\ ordered.result = SelectSeq(calls, IsOther) \o SelectSeq(calls, IsEdgeCreate)

\* an edge/create call placed before two other calls has been moved behind
\* both, and the two kept their order
C1_Witness ==
    /\ ordered.done
    /\ Len(calls) = 3
    /\ IsEdgeCreate(calls[1])
    /\ IsOther(calls[2]) /\ IsOther(calls[3])
    /\ calls[2] # calls[3]
    /\ ordered.result = <<calls[2], calls[3], calls[1]>>

\* ---- C9
\* C9: applying the normaliser to its own output changes nothing.
C9_Idempotent ==
    renormalized.done => renormalized.result = normalized.result

\* a schema with a non-mapping property and an untyped property, both
\* rewritten by the first application, normalised twice
C9_Witness ==
    /\ renormalized.done
    /\ schema.kind = "dict"
    /\ Len(schema.props) = 2
    /\ schema.props[1].kind = "raw"
    /\ schema.props[2].kind = "dict"
    /\ schema.props[2].type = "absent"
    /\ schema.props[2].comb = "absent"
    /\ normalized.result # schema

\* ---- C10
HasTypeKey(prop) ==
    prop.kind = "dict" /\ (prop.type # "absent" \/ prop.comb # "absent")

\* C10: the normaliser's output has type "object", additionalProperties
\* false, a properties mapping, and every property carries a type-carrying
\* key, object-typed properties being closed.
C10_OutputShape ==
    normalized.done =>
        /\ normalized.result.kind = "dict"
        /\ normalized.result.type = "object"
        /\ normalized.result.addl = "false"
        /\ normalized.result.propsKind = "dict"
        /\ \A i \in 1..Len(normalized.result.props) :
              LET prop == normalized.result.props[i]
              IN /\ HasTypeKey(prop)
                 /\ prop.type = "object" =>
                       prop.properties = "dict" /\ prop.addl = "false"

(***************************************************************************)
(* Claims about run_agent                                                  *)
(***************************************************************************)
FunctionCalls == _extract_function_calls(response.output)

Starts == SelectSeq(toolLog, LAMBDA e : e.ev = "start")

StartsOf(id) == {j \in DOMAIN toolLog :
                    toolLog[j].ev = "start" /\ toolLog[j].call_id = id}

OutputsOf(id) == {j \in DOMAIN outputs : outputs[j].call_id = id}

IsEdgeCreateCall(c) == c.name = "edge" /\ c.arguments = "json_create"

\* ---- C2
\* the call_tool events of a round alternate start, return: one call at a time
C2_OneAtATime ==
    \A j \in DOMAIN toolLog :
        /\ toolLog[j].round = response.id
        /\ IF j % 2 = 1
           THEN toolLog[j].ev = "start"
           ELSE /\ toolLog[j].ev \in {"return", "raise"}
                /\ toolLog[j].call_id = toolLog[j - 1].call_id

\* an edge/create call starts only after every other executable call of the
\* response has returned
C2_EdgesLast ==
    \A j \in DOMAIN toolLog :
        (toolLog[j].ev = "start" /\ IsEdgeCreateCall(toolLog[j])) =>
            \A i \in DOMAIN FunctionCalls :
                (~Skipped(FunctionCalls[i]) /\ ~IsEdgeCreateCall(FunctionCalls[i]))
                => \E k \in 1..(j - 1) :
                      /\ toolLog[k].ev = "return"
                      /\ toolLog[k].call_id = FunctionCalls[i].call_id

\* calls of equal priority start in the order of the response
C2_InOrder ==
    \A j, k \in DOMAIN toolLog :
        (/\ j < k
         /\ toolLog[j].ev = "start" /\ toolLog[k].ev = "start"
         /\ IsEdgeCreateCall(toolLog[j]) = IsEdgeCreateCall(toolLog[k]))
        => toolLog[j].call_id < toolLog[k].call_id

\* a call_tool starts either after the previous one of the round returned, or
\* as the first of a round when the Model Client answered the call that
\* carried the outputs of the round before
C2_RoundsSerial ==
    toolCalls' > toolCalls =>
        \/ pc = "call_tool" /\ response' = response
        \/ /\ pc = "parse"
           /\ response'.id = response.id + 1
           /\ \/ response.id = 0 /\ sent.kind = "input"
              \/ /\ response.id > 0
                 /\ sent = [kind |-> "outputs", round |-> response.id,
                            items |-> outputs]
                 /\ outputs # <<>>

\* C2: within a run, call_tool invocations happen one at a time in the
\* prioritised order (edge/create calls after all others of the round have
\* returned), and no call_tool of round k+1 starts before the outputs of
\* round k were sent to the Model Client and answered.
C2_SerialRounds ==
    /\ [](C2_OneAtATime /\ C2_EdgesLast /\ C2_InOrder)
    /\ [][C2_RoundsSerial]_vars

\* second round: the response lists an edge/create call before a node call,
\* the node call has run first and the edge/create call is in flight
C2_Witness ==
    /\ response.id = 2
    /\ pc = "call_tool"
    /\ Len(FunctionCalls) = 2
    /\ IsEdgeCreateCall(FunctionCalls[1]) /\ ~Skipped(FunctionCalls[1])
    /\ FunctionCalls[2].name = "node" /\ ~Skipped(FunctionCalls[2])
    /\ Len(toolLog) = 3
    /\ toolLog[1].name = "node" /\ toolLog[2].ev = "return"
    /\ toolLog[3].name = "edge" /\ toolLog[3].ev = "start"

\* ---- C3
\* the round of the last response is over: every call was gone through, or
\* the run left the loop
RoundOver ==
    /\ req.mcp
    /\ response.id >= 1
    /\ pc # "call_tool"

\* C3: in a tool round (of a run that was not cancelled) each function call
\* with call_id and name causes exactly one call_tool invocation and exactly
\* one function_call_output with its call_id, in execution order; a call
\* missing call_id or name causes neither, and does not fail the run.
C3_OneOutputPerCall ==
    (RoundOver /\ exc.kind # "cancelled") =>
        /\ \A i \in DOMAIN FunctionCalls :
              IF Skipped(FunctionCalls[i])
              THEN FunctionCalls[i].call_id # 0 =>
                     /\ StartsOf(FunctionCalls[i].call_id) = {}
                     /\ OutputsOf(FunctionCalls[i].call_id) = {}
              ELSE /\ Cardinality(StartsOf(FunctionCalls[i].call_id)) = 1
                   /\ Cardinality(OutputsOf(FunctionCalls[i].call_id)) = 1
        /\ [j \in DOMAIN outputs |-> outputs[j].call_id]
             = [j \in DOMAIN Starts |-> Starts[j].call_id]
        /\ (\A i \in DOMAIN FunctionCalls : Skipped(FunctionCalls[i]))
             => exc.kind \in {"none", "return"}

\* ---- C4
\* C4: a failing call_tool never aborts the run: the failure is an output
\* with isError true for the model, whatever way the call failed.
C4_ToolFailureNotFatal ==
    /\ exc.kind # "tool_error"
    /\ \A j \in DOMAIN toolLog :
          toolLog[j].ev = "raise" =>
              \E k \in DOMAIN outputs :
                  /\ outputs[k].call_id = toolLog[j].call_id
                  /\ outputs[k].isError

\* ---- C5
C5_ErrorResult ==
    (pc = "ended" /\ exc.kind = "api_status") =>
        /\ http.status = exc.status
        /\ http.detail = "error_message"
        /\ http.output = ""

C5_NothingAfter ==
    exc.kind = "api_status" =>
        /\ exc' = exc
        /\ parseCalls' = parseCalls
        /\ toolCalls' = toolCalls
        /\ response' = response

\* C5: an APIStatusError of the Model Client ends the run with an HTTP error
\* of the upstream status and an {error, message} detail, without output, and
\* no call_tool or Model Client call follows it.
C5_StatusErrorTerminal ==
    /\ []C5_ErrorResult
    /\ [][C5_NothingAfter]_vars

\* the error came after a tool round
C5_Witness ==
    /\ pc = "ended"
    /\ exc.kind = "api_status"
    /\ response.id = 1
    /\ toolCalls > 0
    /\ http.status = 429

\* ---- C6
AllClosed ==
    mcp = [http_client |-> "closed", streams |-> "closed", session |-> "closed"]

C6_ClosedAtEnd ==
    /\ (pc \in {"unwound", "ended"} /\ mcp # NoSession) => AllClosed
    /\ pc \in {"list_tools", "call_tool"} => mcp = OpenSession
    /\ mcp.streams = "closed" => mcp.session = "closed"
    /\ mcp.http_client = "closed" => mcp.streams = "closed"

C6_NoCallAfterClose ==
    /\ toolCalls' > toolCalls => (mcp.session = "open" /\ mcp'.session = "open")
    /\ mcp.session = "closed" => mcp'.session = "closed"

\* C6: on every way out of a run that opened the tool session, the session,
\* its stream and its HTTP client are closed before the run ends, and no
\* call_tool is issued on a closed session.
C6_SessionScoped ==
    /\ []C6_ClosedAtEnd
    /\ [][C6_NoCallAfterClose]_vars

\* a run cancelled while a call_tool was in flight has ended, all closed
C6_Witness ==
    /\ pc = "ended"
    /\ exc.kind = "cancelled"
    /\ toolLog # <<>>
    /\ toolLog[Len(toolLog)].ev = "start"
    /\ AllClosed

\* ---- C7
C7_FinalOnlyWithoutCalls ==
    (req.mcp /\ exc.kind = "return") =>
        /\ response.id = parseCalls
        /\ response.id >= 1
        /\ \/ FunctionCalls = <<>>
           \/ outputs = <<>> /\ toolLog = <<>>

\* a response arriving in a run with a session starts a tool round whenever
\* it carries an executable call, whatever maxTurns is, and ends the loop
\* otherwise
C7_NoTurnLimit ==
    (pc = "parse" /\ mcp.session = "open" /\ response'.id = response.id + 1) =>
        IF \E i \in DOMAIN response'.output :
               /\ IsFunctionCall(response'.output[i])
               /\ ~Skipped(response'.output[i])
        THEN pc' = "call_tool" /\ exc' = exc
        ELSE exc'.kind = "return"

\* C7: a run with a tool session reaches its final answer exactly when the
\* Model Client returns a response without function calls (or a round gives
\* no outputs); a response with executable calls always starts another
\* round, whatever the request's maxTurns.
C7_LoopUnbounded ==
    /\ []C7_FinalOnlyWithoutCalls
    /\ [][C7_NoTurnLimit]_vars

\* two tool rounds were executed although maxTurns is 0 or 1
C7_Witness ==
    /\ pc = "ended"
    /\ http.status = 200
    /\ req.mcp
    /\ req.maxTurns \in {0, 1}
    /\ response.id = 3
    /\ toolCalls >= 2

\* ---- C8
Blank(apiKey) == apiKey = " "

\* C8: a /run with a whitespace-only apiKey ends with 400
\* 'openai_key_required' in the Agent and in the Skill Engine, and a /run of
\* the Skill Engine (with a key) without database pool ends with 503; in each
\* case nothing was called or written before: no embedding, Model Client or
\* Agent call, no tool session, no run insert, no learner task.
C8_RejectedWithoutEffect ==
    /\ (pc # "idle" /\ Blank(req.apiKey)) =>
          /\ pc \in {"received", "ended"}
          /\ parseCalls = 0 /\ toolCalls = 0 /\ mcp = NoSession
          /\ pc = "ended" =>
                http = [status |-> 400, detail |-> "openai_key_required",
                        output |-> ""]
    /\ (spc # "idle" /\ Blank(sreq.apiKey)) =>
          /\ spc \in {"received", "ended"}
          /\ effects = NoEffects
          /\ spc = "ended" =>
                (shttp.status = 400 /\ shttp.detail = "openai_key_required")
    /\ (spc # "idle" /\ ~Blank(sreq.apiKey) /\ ~POOL) =>
          /\ spc \in {"received", "ended"}
          /\ effects = NoEffects
          /\ spc = "ended" =>
                (shttp.status = 503 /\ shttp.detail = "skills_pool_unavailable")

\* a request of a known user with a query and a key, rejected for the missing
\* pool
C8_Witness ==
    /\ spc = "ended"
    /\ sreq = [apiKey |-> "sk-test", userId |-> "U", query |-> "q"]
    /\ ~POOL
    /\ shttp.status = 503
    /\ effects = NoEffects

\* ---- C11
\* a text is present when it is a str with something left after trimming
Present(text) == text # None /\ Strip(text) # ""

ParsedMessage(r) ==
    IF r.output_parsed.kind \in {"model", "dict"}
    THEN r.output_parsed.message ELSE None

FirstOutputTextBlock(r) ==
    IF r.output.isList THEN FirstTextBlock(r.output.items) ELSE None

FirstPresent(r) ==
    IF Present(ParsedMessage(r)) THEN ParsedMessage(r)
    ELSE IF Present(r.output_text) THEN r.output_text
    ELSE IF Present(FirstOutputTextBlock(r)) THEN FirstOutputTextBlock(r)
    ELSE ""

\* C11: the final text is, trimmed, the first present of
\* output_parsed.message, output_text and the first output_text block, and
\* it is empty only when none of the three is present.
C11_FirstPresentText ==
    final_text.done =>
        /\ final_text.result = Strip(FirstPresent(resp_shape))
        /\ final_text.result = "" =>
              /\ ~Present(ParsedMessage(resp_shape))
              /\ ~Present(resp_shape.output_text)
              /\ ~Present(FirstOutputTextBlock(resp_shape))

\* ---- C12
VersionNumbers(skill_id) ==
    {row.version : row \in VersionsOf(assistant_skill_versions, skill_id)}

\* C12: in every catalogue state, every skill's versions are numbered 1..n
\* without gap or duplicate and its active-version pointer references a
\* version row of that skill.
C12_VersionsContiguous ==
    \A s \in DOMAIN assistant_skills :
        /\ VersionNumbers(s) =
                1..Cardinality(VersionsOf(assistant_skill_versions, s))
        /\ VersionNumbers(s) # {}
        /\ \E row \in assistant_skill_versions :
                /\ row.id = assistant_skills[s].active_version_id
                /\ row.skill_id = s
                /\ 1 <= row.version
                /\ row.version <= MaxVersion(assistant_skill_versions, s)

C12_Witness ==
    /\ \E s \in DOMAIN assistant_skills : MaxVersion(assistant_skill_versions, s) >= 3
    /\ \E t \in Tasks : task[t].outcome = "merged" /\ task[t].kind = "learner"
    /\ \E t \in Tasks : task[t].outcome = "fixed"

\* ---- C13
Writing(t) == task[t].pc \in {"merge_write", "fix_write"}

\* C13: concurrent writers of a new version to one skill serialise: two
\* writers never hold the same version number for the same skill, and no
\* write is rejected (both commit).
C13_WritersSerialise ==
    /\ \A t1, t2 \in Tasks :
            (/\ t1 # t2
             /\ Writing(t1)
             /\ Writing(t2)
             /\ task[t1].skill_id = task[t2].skill_id)
                => task[t1].version # task[t2].version
    /\ \A t \in Tasks : task[t].outcome # "failed"

\* ---- C14
\* C14: in every catalogue state no skill has a generalization_score below
\* the threshold, whichever writer produced or updated the row.
C14_GeneralisationGate ==
    \A s \in DOMAIN assistant_skills :
        assistant_skills[s].generalization_score
            >= SKILLS_GENERALIZATION_THRESHOLD

\* ---- C15
LearnerMerges(t) ==
    /\ task[t].kind = "learner"
    /\ task[t].pc = "merge_write"
    /\ task'[t].outcome = "merged"

MergeKey(item) ==
    IF merge_args.kind \in {"preconditions", "success_criteria"}
    THEN Lower(item.text) ELSE item.text

\* C16: every parameter (by name), precondition and success criterion (by
\* case-insensitive text) and example (by userInput) of the candidate is
\* still in the list after the merge, whatever the sizes of the two lists.
C16_MergeKeepsMembers ==
    merged_list.done =>
        \A i \in DOMAIN merge_args.existing :
            \E j \in DOMAIN merged_list.result :
                MergeKey(merged_list.result[j])
                    = MergeKey(merge_args.existing[i])

\* ---- C17
StepCalls == {k \in DOMAIN agent_calls : agent_calls[k].index # -1}

\* C17: when the similarity to the nearest skill is below the threshold the
\* skill is not executed: it is dropped, no step-scoped Agent call is made,
\* the request is served by one base call and answers found = false; its
\* run has no skill reference until the learner links the skill it saved.
C17_RetrievalSound ==
    (match_similarity # NoSimilarity
        /\ match_similarity < SKILLS_MATCH_SIMILARITY_THRESHOLD) =>
        /\ skill = NoRow
        /\ StepCalls = {}
        /\ spc \in {"agent_base", "insert_run_base", "ended"}
        /\ Len(agent_calls) = 1
        /\ (skill_runs # <<>> /\ learner.outcome # "saved") =>
                skill_runs[1].skill_id = ""
        /\ (skill_runs # <<>> /\ learner.outcome = "saved") =>
                skill_runs[1].skill_id = LearnerSkillId(learner.mode)
        /\ (spc = "ended" /\ shttp.status = 200) => ~shttp.found

C17_Witness ==
    /\ spc = "ended"
    /\ shttp.status = 200
    /\ ~shttp.found
    /\ match_similarity = 68
    /\ Len(agent_calls) = 1

\* ---- C18
\* C18: on a hit with a version of T steps the executor calls the Agent T
\* times, one call at a time in step order, call i+1 after the result of
\* step i was recorded and with the outputs of the last three prior steps in
\* its instructions; the response has the output of step T and found = true.
C18_StepsInOrder ==
    (skill # NoRow /\ steps > 0) =>
        /\ StepCalls = DOMAIN agent_calls
        /\ Len(agent_calls) <= steps
        /\ Len(agent_calls) =
                Len(step_results) + (IF spc = "agent_step" THEN 1 ELSE 0)
           \/ (spc = "ended" /\ shttp.status # 200
                /\ Len(agent_calls) = Len(step_results) + 1)
        /\ \A k \in DOMAIN agent_calls :
                /\ agent_calls[k].index = k - 1
                /\ Len(agent_calls[k].recap) = (IF k > 3 THEN 3 ELSE k - 1)
                /\ \A i \in DOMAIN agent_calls[k].recap :
                        agent_calls[k].recap[i] =
                            step_results[k - 1 - Len(agent_calls[k].recap) + i]
                                .output
        /\ \A k \in DOMAIN step_results : step_results[k].index = k - 1
        /\ (spc = "ended" /\ shttp.status = 200) =>
                /\ Len(agent_calls) = steps
                /\ Len(step_results) = steps
                /\ shttp.output = step_results[steps].output
                /\ shttp.found

C18_Witness ==
    /\ spc = "ended"
    /\ shttp.status = 200
    /\ shttp.found
    /\ steps = 5
    /\ step_results[1].output = "a"
    /\ step_results[2].output = "b"
    /\ agent_calls[5].recap = <<"b", "a", "b">>
    /\ shttp.output = "a"

\* ---- C19
Failed(k) == agent_calls[k].index # -1 /\ agent_calls[k].status \notin {0, 200}

\* C19: when the Agent call of a step fails, the request ends with the
\* Agent's status, no later step is called, no run is inserted and no
\* learner is dispatched.
C19_NoPartialSuccess ==
    \A k \in DOMAIN agent_calls :
        Failed(k) =>
            /\ spc = "ended"
            /\ shttp.status = agent_calls[k].status
            /\ k = Len(agent_calls)
            /\ Len(step_results) = k - 1
            /\ skill_runs = <<>>
            /\ effects.runs = 0
            /\ effects.learner = 0

C19_Witness ==
    /\ steps = 3
    /\ Len(agent_calls) = 2
    /\ Failed(2)
    /\ agent_calls[2].status = 401
    /\ shttp.status = 401

\* ---- C20
Completed == spc = "ended" /\ shttp.status = 200

C20_OneRunWhenCompleted ==
    Completed =>
        IF sreq.userId = "" THEN skill_runs = <<>>
        ELSE /\ Len(skill_runs) = 1
             /\ skill_runs[1].user_id = sreq.userId
             /\ IF shttp.found
                THEN /\ skill_runs[1].skill_id = skill.id
                     /\ skill_runs[1].skill_id # ""
                     /\ skill_runs[1].skill_version_id
                            = skill.active_version_id
                     /\ skill_runs[1].skill_version_id # ""
                     /\ Len(skill_runs[1].step_results) = steps
                     /\ \A k \in 1..steps :
                            skill_runs[1].step_results[k].index = k - 1
                ELSE /\ skill_runs[1].step_results = <<>>
                     /\ IF learner.outcome = "saved"
                        THEN /\ skill_runs[1].skill_id
                                    = LearnerSkillId(learner.mode)
                             /\ skill_runs[1].skill_version_id
                                    = LearnerVersionId
                        ELSE /\ skill_runs[1].skill_id = ""
                             /\ skill_runs[1].skill_version_id = ""

C20_InsertedAtEnd ==
    [][skill_runs' # skill_runs =>
        \/ /\ skill_runs = <<>>
           /\ spc' = "ended"
           /\ shttp'.status = 200
           /\ agent_calls' = agent_calls
        \/ /\ learner.pc = "update_run"
           /\ Len(skill_runs') = Len(skill_runs)]_vars

C20_NoRunBeforeEnd == spc # "ended" => skill_runs = <<>>

\* C20: a /run that completes with a userId has inserted exactly one run, as
\* its last step: with the executed skill, the version and one result per
\* step in skill mode, with null references and no result in base mode (the
\* references stay null until the learner of the request has saved a skill
\* and linked the run to it); a /run without userId inserts none.
C20_OneRunPerRequest ==
    /\ []C20_OneRunWhenCompleted
    /\ []C20_NoRunBeforeEnd
    /\ C20_InsertedAtEnd

C20_Witness ==
    /\ Completed
    /\ shttp.found
    /\ steps = 2
    /\ Len(skill_runs) = 1
    /\ skill_runs[1].skill_id = "s2"
    /\ skill_runs[1].skill_version_id = "v1"
    /\ Len(skill_runs[1].step_results) = 2


\* ---- C21
LearnerCreated == learner.pc # "none"

BaseCallOnly ==
    /\ agent_calls # <<>>
    /\ agent_calls[Len(agent_calls)].index = -1
    /\ step_results = <<>>

C21_CreatedAfterBaseRun ==
    LearnerCreated =>
        /\ spc = "ended"
        /\ BaseCallOnly
        /\ sreq.userId # ""
        /\ sreq.query # ""
        /\ Len(skill_runs) = 1
        /\ effects.learner = 1
        /\ shttp.status = 200
        /\ ~shttp.found
        /\ shttp.skillId = ""
        /\ shttp.skillVersionId = ""

C21_CreatedWithResponse ==
    [][learner.pc = "none" /\ learner'.pc # "none" =>
        /\ learner' = Queued
        /\ spc = "insert_run_base"
        /\ spc' = "ended"
        /\ shttp'.status = 200]_vars

C21_LearnerLeavesResponse ==
    [][learner.pc # "none" /\ learner' # learner =>
        /\ spc = "ended"
        /\ shttp' = shttp]_vars

\* C21: the learner task exists only after a base-mode run with a userId and
\* a non-empty query, whose run is inserted; the step that creates it also
\* builds the response, so every step of the learner comes after the
\* response and leaves it as built: status 200, found = false, no skillId
\* and no skillVersionId, also once the learner has linked the run to a skill.
C21_LearnerNeverBlocks ==
    /\ []C21_CreatedAfterBaseRun
    /\ C21_CreatedWithResponse
    /\ C21_LearnerLeavesResponse

C21_Witness ==
    /\ learner.pc = "done"
    /\ learner.outcome = "saved"
    /\ skill_runs[1].skill_id = "s3"
    /\ skill_runs[1].skill_version_id = "v3"
    /\ shttp.status = 200
    /\ ~shttp.found
    /\ shttp.skillId = ""


\* ---- C22
C22_CaughtInside ==
    [][learner'.outcome = "caught" /\ learner.outcome # "caught" =>
        /\ learner.pc \in LearnerAwaits
        /\ learner'.pc = "done"
        /\ spc = "ended"
        /\ spc' = "ended"
        /\ shttp' = shttp
        /\ skill_runs' = skill_runs]_vars

C22_Terminates == [][learner.pc = "done" => learner' = learner]_vars

C22_ResponseKept ==
    learner.outcome = "caught" =>
        /\ shttp.status = 200
        /\ ~shttp.found
        /\ shttp.output = last_result

OwnRun(f) ==
    /\ fb[f].runId \in DOMAIN assistant_skill_runs
    /\ assistant_skill_runs[fb[f].runId].user_id = fb[f].userId

Catalogue == <<assistant_skills, assistant_skill_versions>>

C23_RejectedAtLookup ==
    [][\A f \in FeedbackIds :
        fb[f].pc = "get_run" /\ fb'[f] # fb[f] /\ ~OwnRun(f) =>
            /\ fb'[f].pc = "done"
            /\ fb'[f].status = 404
            /\ fb'[f].detail = "skill_run_not_found"
            /\ assistant_skill_runs' = assistant_skill_runs
            /\ Catalogue' = Catalogue]_vars

C23_NothingDone ==
    \A f \in FeedbackIds :
        fb[f].status = 404 =>
            /\ fb[f].pc = "done"
            /\ ~fb[f].updated
            /\ fb[f].newVersionId = NoVersionId
            /\ fb[f].current_steps = ""
            /\ fb[f].version = 0

C23_NothingAfter ==
    [][\A f \in FeedbackIds : fb[f].status = 404 => fb'[f] = fb[f]]_vars

\* C23: a /feedback whose run id names no run, or a run of another user,
\* ends at the lookup with 404 skill_run_not_found; that step writes no row
\* (no rating, no version, no pointer), the request has given no steps to
\* the LLM, and it takes no later step.
C23_UnknownRunChangesNothing ==
    /\ C23_RejectedAtLookup
    /\ []C23_NothingDone
    /\ C23_NothingAfter

C23_Witness ==
    /\ fb["f1"].status = 404
    /\ fb["f1"].userId = "V"
    /\ fb["f1"].runId = 1
    /\ fb["f1"].rating = "negative"
    /\ assistant_skill_runs[1].user_id = "U"
    /\ assistant_skill_runs[1].feedback_rating = NoRating
    /\ fb["f2"].status = 404
    /\ fb["f2"].runId = 4


\* ---- C24
\* the request has its run, and the rating or the run's links end it
StopsAfterRating(f) ==
    \/ fb[f].rating # "negative"
    \/ fb[f].skillId = NoSkillId
    \/ fb[f].skillVersionId = NoVersionId

C24_RatingThenStop ==
    [][\A f \in FeedbackIds :
        fb[f].pc = "update_feedback" /\ fb'[f] # fb[f]
            /\ StopsAfterRating(f) =>
            /\ assistant_skill_runs'[fb[f].runId].feedback_rating
                    = fb[f].rating
            /\ assistant_skill_runs'[fb[f].runId].feedback_text
                    = fb[f].feedback
            /\ fb'[f].pc = "done"
            /\ fb'[f].status = 200
            /\ ~fb'[f].updated
            /\ fb'[f].newVersionId = NoVersionId
            /\ Catalogue' = Catalogue]_vars

C24_NoRepair ==
    \A f \in FeedbackIds :
        fb[f].pc \notin {"idle", "get_run"} /\ fb[f].status # 404
                /\ StopsAfterRating(f) =>
            /\ fb[f].pc \in {"update_feedback", "done"}
            /\ ~fb[f].updated
            /\ fb[f].newVersionId = NoVersionId
            /\ fb[f].current_steps = ""
            /\ fb[f].version = 0

C24_Stopped ==
    [][\A f \in FeedbackIds :
        fb[f].pc = "done" /\ StopsAfterRating(f) => fb'[f] = fb[f]]_vars

\* C24: a /feedback that found its run and whose rating is not negative, or
\* whose run has no skill or no version, writes the rating and the clamped
\* text into the run and ends in that step with 200, updated = false and no
\* newVersionId; it loads no skill, calls no LLM, and no step of it changes
\* a skill or a version.
C24_RatingOnly ==
    /\ C24_RatingThenStop
    /\ []C24_NoRepair
    /\ C24_Stopped

C24_Witness ==
    /\ fb["f1"].pc = "done"
    /\ fb["f1"].status = 200
    /\ fb["f1"].rating = "negative"
    /\ fb["f1"].runId = 2
    /\ assistant_skill_runs[2].feedback_rating = "negative"
    /\ assistant_skill_runs[2].feedback_text = "t"
    /\ fb["f2"].pc = "done"
    /\ fb["f2"].rating = "positive"
    /\ fb["f2"].runId = 1
    /\ assistant_skill_runs[1].feedback_rating = "positive"
    /\ assistant_skill_runs[1].feedback_text = None


\* ---- C25
\* the request leaves the save of the fix: the LLM gave it a step list
LeavesSave(f) == fb[f].pc = "save_fix" /\ fb'[f] # fb[f]

NewVersions == assistant_skill_versions' \ assistant_skill_versions

\* C25: a negative /feedback on a run with skill and version, to which the
\* LLM gave a step list, inserts exactly one version of the skill, numbered
\* one above the highest stored, and makes it the active version in the same
\* step; every older version stays as it is, and the answer is 200 with
\* updated = true and newVersionId the id of that version.
C25_FixInsertsOneVersion ==
    [][\A f \in FeedbackIds :
        LeavesSave(f) =>
            /\ assistant_skill_versions \subseteq assistant_skill_versions'
            /\ Cardinality(NewVersions) = 1
            /\ \A row \in NewVersions :
                /\ row.skill_id = fb[f].skillId
                /\ row.version =
                    MaxVersion(assistant_skill_versions, fb[f].skillId) + 1
                /\ assistant_skills'[fb[f].skillId].active_version_id = row.id
                /\ fb'[f].newVersionId = row.id
            /\ fb'[f].status = 200
            /\ fb'[f].updated]_vars

\* ---- C26
ActiveSteps(skill_id) ==
    {row.steps : row \in
        _load_skill_version(assistant_skill_versions,
                            assistant_skills[skill_id].active_version_id)}

\* C26: the steps a /feedback gives to the LLM as current steps are the steps
\* of the version that is active for the skill when they are loaded.
C26_RepairFromActive ==
    [][\A f \in FeedbackIds :
        fb[f].pc = "load_version" /\ fb'[f].pc = "fix" =>
            fb'[f].current_steps \in ActiveSteps(fb[f].skillId)]_vars

\* ---- C27
RatingPersisted(f) ==
    fb[f].pc \in {"load_skill", "load_version", "fix", "next_version",
                  "save_fix"}

\* C27: once the rating is written, whatever fails in the repair, the answer
\* is 200 with updated = false, and the rating stays in the run.
C27_RepairFailureDowngrades ==
    [][\A f \in FeedbackIds :
        RatingPersisted(f) /\ fb'[f].pc = "done" /\ ~fb'[f].updated =>
            /\ fb'[f].status = 200
            /\ assistant_skill_runs' = assistant_skill_runs]_vars


\* ---- C28
C28_OwnRowsOnly == \A a \in accessed : a.by = a.owner

\* a run and the skill and the version it names have one owner
C28_LinksWithinOwner ==
    \A k \in DOMAIN assistant_skill_runs :
        LET run == assistant_skill_runs[k]
        IN  run.skill_id # NoSkillId =>
                /\ run.skill_id \in DOMAIN assistant_skills
                /\ assistant_skills[run.skill_id].user_id = run.user_id
                /\ OwnerOfVersion(run.skill_version_id) = {run.user_id}

C28_FeedbackOnOwn ==
    fb["f1"].pc \notin {"idle", "get_run"} /\ fb["f1"].status \in {0, 200} =>
        /\ assistant_skill_runs[fb["f1"].runId].user_id = fb["f1"].userId
        /\ fb["f1"].updated =>
                assistant_skills[fb["f1"].skillId].user_id = fb["f1"].userId

\* a row changes only in a step that logs a write of its owner's request
C28_WritesLogged ==
    [][/\ \A k \in DOMAIN assistant_skill_runs :
            assistant_skill_runs'[k] # assistant_skill_runs[k] =>
                Touch(assistant_skill_runs[k].user_id,
                      assistant_skill_runs[k].user_id, "runs", "write")
                    \in accessed'
       /\ \A id \in DOMAIN assistant_skills :
            assistant_skills'[id] # assistant_skills[id] =>
                Touch(assistant_skills[id].user_id,
                      assistant_skills[id].user_id, "skills", "write")
                    \in accessed'
       /\ \A row \in assistant_skill_versions' \ assistant_skill_versions :
            Touch(assistant_skills'[row.skill_id].user_id,
                  assistant_skills'[row.skill_id].user_id, "skills", "write")
                \in accessed']_vars

\* C28: every row a request of a user reads or writes (a /run, its learner,
\* a /feedback) belongs to that user: the skill a /run executes, the skill a
\* learner merges into, the run a /feedback rates and the skill it gives a
\* version to; and a run never names a skill or a version of another user.
C28_PerUser ==
    /\ []C28_OwnRowsOnly
    /\ []C28_LinksWithinOwner
    /\ []C28_FeedbackOnOwn
    /\ C28_WritesLogged

C28_Witness ==
    /\ Touch("U", "U", "skills", "write") \in accessed
    /\ Touch("V", "V", "skills", "write") \in accessed
    /\ Touch("U", "U", "versions", "read") \in accessed
    /\ Touch("U", "U", "runs", "read") \in accessed
    /\ fb["f1"].updated
    /\ fb["f1"].userId = "U"
    /\ Len(assistant_skill_runs) = 4
    /\ assistant_skill_runs[4].user_id = "V"
    /\ assistant_skill_runs[4].skill_id = 2
    /\ assistant_skills[2].active_version_id = <<2, 2>>


\* ---- C29
\* what the file says: its text stripped, the default when that is empty
FileSays(file) == ReadPromptText(file, TRUE)

C29_NeverStale ==
    [][prompt_result'.op = "load" =>
        prompt_result'.value = FileSays(prompt_file')]_vars

C29_SavedTextServed ==
    [][prompt_result'.op = "load" /\ prompt_file.exists
            /\ prompt_file.by = "save" =>
        prompt_result'.value = Strip(prompt_file.text)]_vars

C29_RereadOnMtime ==
    [][prompt_result'.op = "load"
            /\ (_prompt_mtime' = NoMtime \/ _prompt_mtime' # _prompt_mtime) =>
        prompt_result'.reread]_vars

C29_BlankSaveRejected ==
    [][prompt_result'.op = "save" /\ prompt_result'.raised =>
        /\ prompt_file' = prompt_file
        /\ _prompt_cache' = _prompt_cache
        /\ _prompt_mtime' = _prompt_mtime]_vars

\* C29: a load never returns stale text: it returns what the file says (its
\* text stripped, the default for an empty or blank file), and after a save
\* of x it returns x stripped for as long as the file stays as the save left
\* it; a load whose modification time differs from the cached one or cannot
\* be read reads the file; a save of blank text raises and changes neither
\* the file nor the cache.
C29_PromptCacheFresh ==
    /\ C29_NeverStale
    /\ C29_SavedTextServed
    /\ C29_RereadOnMtime
    /\ C29_BlankSaveRejected


\* ---- C30
ActiveVersion(skill_id) ==
    {row \in assistant_skill_versions :
        row.id = assistant_skills[skill_id].active_version_id}

C30_PointerExists ==
    \A skill_id \in DOMAIN assistant_skills :
        /\ ActiveVersion(skill_id) # {}
        /\ \A row \in ActiveVersion(skill_id) : row.skill_id = skill_id

C30_NoVersionBeyondPointer ==
    \A skill_id \in DOMAIN assistant_skills :
        \A row \in VersionsOf(assistant_skill_versions, skill_id) :
            \A active \in ActiveVersion(skill_id) :
                row.version <= active.version

C30_InsertMovesPointer ==
    [][\A row \in assistant_skill_versions' \ assistant_skill_versions :
        /\ row.skill_id \in DOMAIN assistant_skills'
        /\ assistant_skills'[row.skill_id].active_version_id = row.id]_vars

\* C30: in every state another request can read, the active_version_id of
\* every skill names a stored version of that skill and no version of the
\* skill is newer than it; every step that inserts a version (of _save_skill,
\* _save_skill_merge, _save_skill_fix) leaves the pointer on that version.
C30_AtomicSave ==
    /\ []C30_PointerExists
    /\ []C30_NoVersionBeyondPointer
    /\ C30_InsertMovesPointer

C30_Witness ==
    /\ Len(assistant_skills) = 1
    /\ assistant_skills[1].active_version_id = <<1, 3>>
    /\ Cardinality(assistant_skill_versions) = 3
    /\ \E t \in Tasks : task[t].outcome = "fixed"
    /\ \E t \in Tasks : task[t].outcome = "failed"

\* ---- C31
\* match_distance of run_skill
match_distance == nearest.distance

\* the similarity is None exactly when _find_skill returned no skill, or a
\* skill without a readable embedding and without a distance
C31_NotComputable ==
    spc # "find_skill" =>
        (match_similarity = NoSimilarity <=>
            (~nearest.present
                \/ (~nearest.hasEmbedding /\ match_distance = -1)))

C31_FallbackTest ==
    (spc \notin {"idle", "embed", "find_skill"}
        /\ match_similarity = NoSimilarity) =>
        /\ (match_distance = -1 \/ match_distance > SKILLS_MATCH_THRESHOLD)
                => skill = NoRow
        /\ (nearest.present /\ match_distance # -1
                /\ match_distance <= SKILLS_MATCH_THRESHOLD) => skill = nearest

C31_MissIsBaseRun ==
    (nearest.present /\ match_similarity = NoSimilarity /\ skill = NoRow) =>
        /\ StepCalls = {}
        /\ (spc = "ended" /\ shttp.status = 200) => ~shttp.found

Finalised == exc.kind = "return"
Errored == exc.kind \notin {"none", "return"} \/ http.status = 400
InModelCall == pc = "parse"
InToolResolve == pc = "call_tool"

\* the first Model Client call of a run with a tool server is issued by the
\* step that receives the tool list
C32_ToolsListedFirst ==
    [][(parseCalls = 0 /\ parseCalls' = 1) =>
        /\ pc = (IF req.mcp THEN "list_tools" ELSE "received")
        /\ sent'.kind = "input"
        /\ parse_kwargs'.previous_response_id = 0]_vars

\* ToolResolve is entered from a ModelCall whose response carries function
\* calls
C32_ResolveFromModelCall ==
    [][(~InToolResolve /\ InToolResolve') =>
        /\ InModelCall
        /\ _extract_function_calls(response'.output) # <<>>]_vars

\* ToolResolve is left for a ModelCall that carries the outputs of the round
\* and the id of the response resolved, for Finalise when the round has no
\* outputs, or for Error
C32_ResolveThenModelCall ==
    [][InToolResolve =>
        \/ /\ InToolResolve'
           /\ response' = response
           /\ exc' = exc
        \/ /\ InModelCall'
           /\ outputs' # <<>>
           /\ sent'.kind = "outputs"
           /\ sent'.items = outputs'
           /\ parse_kwargs'.previous_response_id = response.id
           /\ response' = response
           /\ parseCalls' = parseCalls + 1
        \/ Errored'
        \/ Finalised' /\ outputs' = <<>>]_vars

\* a ModelCall is left for ToolResolve, Finalise or Error
C32_ModelCallThen ==
    [][InModelCall =>
        \/ InToolResolve' /\ response'.id = response.id + 1
        \/ Finalised'
        \/ Errored']_vars

\* Finalise and Error are terminal
C32_Terminal ==
    [][(Finalised \/ Errored) =>
        /\ exc' = exc
        /\ parseCalls' = parseCalls
        /\ toolCalls' = toolCalls
        /\ response' = response
        /\ ~InModelCall' /\ ~InToolResolve']_vars

\* C32: a run lists the tools before its first Model Client call, enters
\* ToolResolve only from a ModelCall whose response contains function calls,
\* follows a ToolResolve that produced outputs by a ModelCall whose input is
\* those outputs and whose previous_response_id is the id of the response
\* resolved, and makes no call after Finalise or Error.
C32_RunStateMachine ==
    /\ C32_ToolsListedFirst
    /\ C32_ResolveFromModelCall
    /\ C32_ResolveThenModelCall
    /\ C32_ModelCallThen
    /\ C32_Terminal

C32_Witness ==
    /\ InModelCall
    /\ response.id = 1
    /\ parse_kwargs.previous_response_id = 1
    /\ Len(outputs) = 2
    /\ sent.items = outputs
    /\ function_tools = <<"node", "edge">>

\* ---- C33
BeforeSave == {"created", "decompose", "generalize", "embed"}

RunUnlinked(t) ==
    /\ assistant_skill_runs[RunOf(t)].skill_id = NoSkillId
    /\ assistant_skill_runs[RunOf(t)].skill_version_id = NoVersionId

\* a step of a learner that has not reached _find_skill writes nothing
C33_StepsWriteNothing ==
    [][\A t \in Tasks :
        (task[t].pc \in BeforeSave /\ task'[t] # task[t]) =>
            /\ assistant_skills' = assistant_skills
            /\ assistant_skill_versions' = assistant_skill_versions
            /\ assistant_skill_runs' = assistant_skill_runs]_vars

\* a learner that stopped there wrote nothing and its run is unlinked
C33_StoppedWroteNothing ==
    \A t \in Tasks :
        task[t].outcome = "skipped" =>
            /\ task[t].pc = "done"
            /\ task[t].writes = 0
            /\ CarriedBy(assistant_skill_versions, t) = {}
            /\ RunUnlinked(t)

\* a score below the gate stops the learner
C33_GateStops ==
    \A t \in Tasks :
        (task[t].generalization_score # 0
            /\ task[t].generalization_score < SKILLS_GENERALIZATION_THRESHOLD)
            => task[t].outcome = "skipped"

C33_Terminal ==
    [][\A t \in Tasks : task[t].pc = "done" => task'[t] = task[t]]_vars

\* C33: a learner that stops before its save step (no pool, decomposition
\* or generalisation failed, score below the gate, embedding failed) inserts
\* no skill and no version, updates no skill and leaves its run with null
\* skill references.
C33_DroppedAttemptWritesNothing ==
    /\ C33_StepsWriteNothing
    /\ []C33_StoppedWroteNothing
    /\ []C33_GateStops
    /\ C33_Terminal

\* one learner dropped at the gate while the other saved a skill
C33_Witness ==
    /\ task["t1"].outcome = "skipped"
    /\ task["t1"].generalization_score = 40
    /\ task["t2"].outcome = "inserted"
    /\ RunUnlinked("t1")
    /\ ~RunUnlinked("t2")

\* ---- C34
\* the learner passed the gate, got its embedding and no call of it failed
\* for a reason of the environment
ReachedSave(t) ==
    task[t].pc = "done" /\ task[t].outcome \in {"merged", "inserted", "conflict"}

MergeDue(t) ==
    task[t].candidate # NoSkillId /\ Mergeable(task[t].merge_score)

WroteMergeVersion(t) ==
    /\ task[t].skill_id = task[t].candidate
    /\ task[t].version_id = <<task[t].candidate, task[t].version>>
    /\ task[t].version > 1
    /\ \E row \in assistant_skill_versions :
            row.id = task[t].version_id /\ row.steps = t

InsertedNewSkill(t) ==
    /\ task[t].skill_id \in DOMAIN assistant_skills
    /\ task[t].skill_id # task[t].candidate
    /\ task[t].version_id = <<task[t].skill_id, 1>>
    /\ \E row \in assistant_skill_versions :
            row.id = task[t].version_id /\ row.steps = t

RunLinked(t) ==
    /\ assistant_skill_runs[RunOf(t)].skill_id = task[t].skill_id
    /\ assistant_skill_runs[RunOf(t)].skill_version_id = task[t].version_id

\* C34: a learner that passes the gate and obtains an embedding performs
\* exactly one catalogue write, a new version of the nearest candidate if
\* and only if a candidate exists and the merge score reaches
\* SKILLS_MERGE_SIMILARITY_THRESHOLD and a new skill at version 1 otherwise,
\* and afterwards its run references the skill and the version written.
C34_OneCatalogueWrite ==
    \A t \in Tasks :
        ReachedSave(t) =>
            /\ task[t].writes = 1
            /\ Cardinality({row \in assistant_skill_versions :
                                row.steps = t}) = 1
            /\ IF MergeDue(t) THEN WroteMergeVersion(t)
               ELSE InsertedNewSkill(t)
            /\ RunLinked(t)

\* ---- C35
Evaluated(t) == task[t].merge_score # NoMergeScore

Weighted(t) == 70 * task[t].similarity + 30 * task[t].step_sim
Boosted(t) ==
    100 * (IF task[t].similarity + 5 <= 100 THEN task[t].similarity + 5
           ELSE 100)
StepTerm(t) == 100 * task[t].step_sim

\* the score is the largest of the three terms, or the step similarity alone
C35_Score ==
    \A t \in Tasks :
        Evaluated(t) =>
            IF task[t].similarity = NoSimilarity
            THEN task[t].merge_score = StepTerm(t)
            ELSE /\ task[t].similarity \in 0..100
                 /\ task[t].merge_score >= Weighted(t)
                 /\ task[t].merge_score >= Boosted(t)
                 /\ task[t].merge_score >= StepTerm(t)
                 /\ task[t].merge_score \in
                        {Weighted(t), Boosted(t), StepTerm(t)}

\* the step that evaluates the candidate takes the merge branch exactly when
\* the score is at least 0.75, hence whenever the similarity is at least
\* 0.70 or the step similarity at least 0.75
C35_Decision ==
    [][\A t \in Tasks :
        (~Evaluated(t) /\ task'[t].merge_score # NoMergeScore) =>
            /\ task'[t].pc = "merge_next_version"
                    <=> task'[t].merge_score >= 7500
            /\ (task'[t].similarity >= 70 \/ task'[t].step_sim >= 75)
                    => task'[t].pc = "merge_next_version"
            /\ task'[t].pc \in {"merge_next_version", "save_skill"}]_vars

\* C35: the merge score of a candidate is the largest of
\* 0.7*similarity + 0.3*step_sim, min(1, similarity + 0.05) and step_sim,
\* with the similarity clamped to [0,1], and step_sim alone when there is no
\* similarity; the learner merges exactly when it is at least 0.75, so for
\* every similarity >= 0.70 or step_sim >= 0.75.
C35_MergeScore ==
    /\ []C35_Score
    /\ C35_Decision

C35_Witness ==
    \E t \in Tasks :
        /\ task[t].similarity = 70
        /\ task[t].step_sim = 0
        /\ task[t].merge_score = 7500
        /\ task[t].outcome = "merged"

\* ---- C36
\* the tool server answered list_tools
Listed == req.mcp /\ parseCalls >= 1

NonBlankEntries ==
    {req.allowedTools[i] : i \in DOMAIN req.allowedTools} \ {"", " "}

\* the server tools of a non-empty string name in the allow-list, in order
Permitted ==
    LET Named(name) == name \notin {"None", ""} /\ name \in NonBlankEntries
    IN SelectSeq(mcp_tools, Named)

C36_ExactlyAllowed ==
    (Listed /\ NonBlankEntries # {}) => function_tools = Permitted

C36_ToolsArgument ==
    parseCalls >= 1 =>
        IF function_tools = <<>>
        THEN parse_kwargs.tools.none /\ ~parse_kwargs.parallel_tool_calls
        ELSE /\ ~parse_kwargs.tools.none
             /\ parse_kwargs.tools.list = function_tools
             /\ parse_kwargs.parallel_tool_calls

\* C36: with an allow-list that has a non-blank entry the tools advertised
\* are exactly the server tools with a non-empty string name in the
\* allow-list, blank entries counting as absent; with no tool left the Model
\* Client is called with tools = None and parallel_tool_calls = false.
C36_AllowListFilters ==
    /\ C36_ExactlyAllowed
    /\ C36_ToolsArgument

\* the blank entry does not admit the server's tool of the blank name
C36_Witness ==
    /\ req.allowedTools = <<" ", "edge">>
    /\ mcp_tools = <<"edge", " ", "node">>
    /\ function_tools = <<"edge">>
    /\ parse_kwargs.tools.list = <<"edge">>
    /\ pc = "parse"

\* the allow-list names no tool of the server: tools = None
C36_WitnessNone ==
    /\ req.allowedTools = <<"text">>
    /\ mcp_tools = <<"node", "edge">>
    /\ parse_kwargs.tools.none
    /\ pc = "parse"

\* ---- C37
\* the call_tool invocations of the current round
Invocations == {i \in DOMAIN toolLog : toolLog[i].ev = "start"}

\* line 855: args = _parse_tool_args(args_raw), line 856: call_tool(name, args)
ArgsPassed(e) == _parse_tool_args(e.arguments)

JsonObjects == {"json_create", "json_update", "json_noaction", "dict_create"}

\* C37: the arguments passed to call_tool are always a JSON object: the
\* parsed object when the arguments text is a JSON object, and {} when the
\* arguments are absent, empty, malformed or not an object.
C37_ArgsAlwaysObject ==
    \A i \in Invocations :
        /\ ArgsPassed(toolLog[i]).kind = "dict"
        /\ toolLog[i].arguments \notin JsonObjects
                => ArgsPassed(toolLog[i]) = EmptyDict

\* ---- C38
\* C38: every call_tool invocation of a run names a tool that was advertised
\* to the Model Client in that run, so with an allow-list in force no tool
\* outside it is invoked, whatever names the response carries.
C38_OnlyAdvertisedInvoked ==
    \A i \in Invocations :
        toolLog[i].name \in Members(function_tools)

\* ---- C39
\* both learners saved what they generalised and linked their runs
BothSaved == \A t \in Tasks : task[t].outcome \in {"merged", "inserted"}

\* C39: when two learner runs of the same user generalise skills whose mutual
\* merge score reaches the threshold, then under every interleaving the
\* catalogue ends with one skill that carries both, never with two separate
\* skills.
C39_MergedNotDuplicated ==
    ((\A t \in Tasks : task[t].similar) /\ BothSaved)
        => CarriedBy(assistant_skill_versions, "t1")
            \cap CarriedBy(assistant_skill_versions, "t2") # {}

\* the same over an empty catalogue, where a learner that runs after the
\* other has saved finds the other's skill and no third one
C39_FromEmptyCatalogue ==
    (\A row \in assistant_skill_versions : row.steps \in Tasks)
        => C39_MergedNotDuplicated

\* ---- C40
\* the active version of the skill carries the skill's highest number
ActiveIsHighest(skills, table, skill_id) ==
    \E row \in VersionsOf(table, skill_id) :
        /\ row.id = skills[skill_id].active_version_id
        /\ row.version = MaxVersion(table, skill_id)

C40_ActiveIsHighest ==
    \A skill_id \in DOMAIN assistant_skills :
        ActiveIsHighest(assistant_skills, assistant_skill_versions, skill_id)

\* a writer that chose its number before another one committed
StaleWriter(t) ==
    /\ task[t].pc \in {"merge_write", "fix_write"}
    /\ task[t].version
        <= MaxVersion(assistant_skill_versions, task[t].skill_id)

\* the write of a stale writer commits nothing
C40_StaleWriteRejected ==
    [][\A t \in Tasks :
        (StaleWriter(t) /\ task'[t] # task[t])
            => /\ task'[t].outcome = "failed"
               /\ assistant_skills' = assistant_skills
               /\ assistant_skill_versions' = assistant_skill_versions]_vars

\* a committed write of version n makes n the highest number of its skill
C40_CommitIsHighest ==
    [][\A row \in assistant_skill_versions' \ assistant_skill_versions :
        row.version = MaxVersion(assistant_skill_versions', row.skill_id)]_vars

\* C40: after any sequence and interleaving of learner inserts, learner
\* merges and feedback repairs the active version of every skill is its
\* highest-numbered version: a committed write of version n is the skill's
\* maximum when it commits, and a writer whose number is no longer above the
\* maximum commits nothing, so no pointer to a lower version follows.
C40_ActiveVersionIsMax ==
    /\ []C40_ActiveIsHighest
    /\ C40_CommitIsHighest
    /\ C40_StaleWriteRejected

\* a learner merged version 3 after the other writer's stale write failed
C40_Witness ==
    /\ Len(assistant_skills) = 1
    /\ MaxVersion(assistant_skill_versions, 1) = 3
    /\ assistant_skills[1].active_version_id = <<1, 3>>
    /\ \E t \in Tasks : task[t].outcome = "merged" /\ task[t].kind = "learner"
    /\ \E t \in Tasks : task[t].outcome = "failed"

====
